---- MODULE Spec2Model ----
(***************************************************************************)
(* Model of the statistics engine of research-companion-ai                 *)
(* (src/unnamed/part_004, imported by the pages as '@/lib/statistics').     *)
(*                                                                         *)
(* JavaScript numbers are modelled as exact rationals extended with the    *)
(* IEEE-754 special values NaN, +Infinity and -Infinity, so that division  *)
(* by zero, 0/0 and Math.max over NaN behave as they do in the engine.     *)
(* Rounding error of binary floating point is modelled where a result is   *)
(* passed to Math.ceil or compared with a bound (calculateNNT,             *)
(* calculateProportionCI), and the sign of zero is not modelled.           *)
(* The library functions Math.sqrt, jStat.normal.cdf and                    *)
(* jStat.normal.inv are modelled by decimal tables of their values.        *)
(* The field qPValue of a pooled result (jStat.chisquare.cdf) is not       *)
(* modelled.                                                               *)
(*                                                                         *)
(* The module also models the clinical calculators of src/lib/pdfParser.ts,*)
(* the selected-articles store (src/unnamed/part_005) and the cascading    *)
(* fallback of callAI (supabase/functions/_shared/config.ts).              *)
(***************************************************************************)
EXTENDS Integers, Sequences, FiniteSets, TLC

VARIABLES studies, params, call, ret,
          selectedArticles, nextArticles, sessionStorage,
          env, pc, cursor, errors, requests, responses

\* the arguments and the result of a call
callVars == <<studies, params, call, ret>>

\* SelectedArticlesProvider: the state of the current render, the state after
\* the updaters queued since that render, and the entry of sessionStorage
storeVars == <<selectedArticles, nextArticles, sessionStorage>>

\* callAI: the environment variables that are set, the position in the loop
\* over the providers, the errors collected, and the requests sent and the
\* responses received
aiVars == <<env, pc, cursor, errors, requests, responses>>

vars == <<callVars, storeVars, aiVars>>

\* the provider is mounted on an empty session: nothing is selected
EmptySelection ==
  /\ selectedArticles = <<>>
  /\ nextArticles = <<>>
  /\ sessionStorage = <<>>

\* callAI has not been called; the variables in e are set
NotCalled(e) ==
  /\ env = e
  /\ pc = "idle"
  /\ cursor = 0
  /\ errors = <<>>
  /\ requests = <<>>
  /\ responses = <<>>

----------------------------------------------------------------------------
(* Numbers *)

\* the value of an expression, evaluated once: the element of a one-element
\* set, as in Only({F(x) : x \in {e}}) for F(e)
Only(S) == CHOOSE x \in S : TRUE

RECURSIVE GCD(_, _)
GCD(a, b) == IF b = 0 THEN a ELSE Only({GCD(b, r) : r \in {a % b}})

AbsInt(a) == IF a < 0 THEN -a ELSE a

SignInt(a) == IF a < 0 THEN -1 ELSE IF a > 0 THEN 1 ELSE 0

NaN == [k |-> "nan", n |-> 0, d |-> 1]

Inf(s) == [k |-> "inf", n |-> s, d |-> 1]

\* the rational n/d (d # 0) in lowest terms with a positive denominator
Rat(n, d) ==
  LET g == GCD(AbsInt(n), AbsInt(d))
      s == IF d < 0 THEN -1 ELSE 1
  IN [k |-> "num", n |-> s * (n \div g), d |-> s * (d \div g)]

Num(i) == [k |-> "num", n |-> i, d |-> 1]

IsFinite(x) == x.k = "num"

Sign(x) == IF x.k = "nan" THEN 0 ELSE SignInt(x.n)

Neg(x) == IF x.k = "nan" THEN NaN ELSE [x EXCEPT !.n = -x.n]

\* Math.abs
Abs(x) == IF Sign(x) < 0 THEN Neg(x) ELSE x

\* a + b
Add(x, y) ==
  IF x.k = "nan" \/ y.k = "nan" THEN NaN
  ELSE IF x.k = "inf" /\ y.k = "inf" THEN (IF x.n = y.n THEN x ELSE NaN)
  ELSE IF x.k = "inf" THEN x
  ELSE IF y.k = "inf" THEN y
  ELSE LET g == GCD(x.d, y.d)
           l == (x.d \div g) * y.d
       IN Rat(x.n * (l \div x.d) + y.n * (l \div y.d), l)

\* a - b
Sub(x, y) == Add(x, Neg(y))

\* a * b
Mul(x, y) ==
  IF x.k = "nan" \/ y.k = "nan" THEN NaN
  ELSE IF x.k = "inf" \/ y.k = "inf"
       THEN (IF Sign(x) * Sign(y) = 0 THEN NaN ELSE Inf(Sign(x) * Sign(y)))
  ELSE LET g1 == GCD(AbsInt(x.n), y.d)
           g2 == GCD(AbsInt(y.n), x.d)
       IN IF x.n = 0 \/ y.n = 0 THEN Num(0)
          ELSE Rat((x.n \div g1) * (y.n \div g2), (x.d \div g2) * (y.d \div g1))

\* a / b with the IEEE-754 results for a zero or infinite divisor
Div(x, y) ==
  IF x.k = "nan" \/ y.k = "nan" THEN NaN
  ELSE IF y.k = "inf" THEN (IF x.k = "inf" THEN NaN ELSE Num(0))
  ELSE IF y.n = 0
       THEN (IF Sign(x) = 0 THEN NaN ELSE Inf(Sign(x)))
  ELSE Mul(x, Rat(y.d, y.n))

\* a ** 2
Sq(x) == Mul(x, x)

\* a < b, a === b: every comparison with NaN is false
Lt(x, y) ==
  IF x.k = "nan" \/ y.k = "nan" THEN FALSE
  ELSE IF x.k = "inf" THEN x.n < 0 /\ ~(y.k = "inf" /\ y.n < 0)
  ELSE IF y.k = "inf" THEN y.n > 0
  ELSE Sign(Sub(x, y)) < 0

Eq(x, y) == x.k # "nan" /\ y.k # "nan" /\ x = y

\* Math.max(a, b): NaN when either argument is NaN
Max(x, y) ==
  IF x.k = "nan" \/ y.k = "nan" THEN NaN
  ELSE IF Lt(x, y) THEN y ELSE x

\* ToBoolean of a number, as used by the || operator: 0 and NaN are falsy
Truthy(x) == ~(x.k = "nan" \/ (x.k = "num" /\ x.n = 0))

\* a || b
OrElse(x, y) == IF Truthy(x) THEN x ELSE y

\* Math.ceil
Ceil(x) ==
  IF x.k # "num" THEN x
  ELSE Num(IF x.n >= 0 THEN (x.n + x.d - 1) \div x.d ELSE -((-x.n) \div x.d))

\* the number of decimal digits kept by the modelled Math.sqrt
SqrtDigits == 2

RECURSIVE Pow10(_)
Pow10(k) == IF k = 0 THEN 1 ELSE 10 * Pow10(k - 1)

\* <<(acc + i * r) \div d, (acc + i * r) % d>> by repeated addition, so that no
\* product exceeds the integers of the checker (0 <= acc, r < d)
RECURSIVE TimesMod(_, _, _, _, _)
TimesMod(i, r, d, acc, cnt) ==
  IF i = 0 THEN <<cnt, acc>>
  ELSE IF acc + r >= d THEN TimesMod(i - 1, r, d, acc + r - d, cnt + 1)
  ELSE TimesMod(i - 1, r, d, acc + r, cnt)

\* floor((q + r/d) * 10^k), for 0 <= r < d
RECURSIVE ScaledFloor(_, _, _, _)
ScaledFloor(q, r, d, k) ==
  IF k = 0 THEN q
  ELSE LET t == TimesMod(10, r, d, 0, 0)
       IN ScaledFloor(q * 10 + t[1], t[2], d, k - 1)

\* the largest s in lo..hi with s * s <= m (lo * lo <= m)
RECURSIVE ISqrtIn(_, _, _)
ISqrtIn(m, lo, hi) ==
  IF lo >= hi THEN lo
  ELSE LET mid == (lo + hi + 1) \div 2
       IN IF mid * mid <= m THEN ISqrtIn(m, mid, hi) ELSE ISqrtIn(m, lo, mid - 1)

ISqrt(m) == ISqrtIn(m, 0, IF m < 46340 THEN m ELSE 46340)

\* Math.sqrt, to SqrtDigits decimals (exact on squares of such decimals)
Sqrt(x) ==
  IF x.k = "nan" \/ Sign(x) < 0 THEN NaN
  ELSE IF x.k = "inf" THEN x
  ELSE Rat(ISqrt(ScaledFloor(x.n \div x.d, x.n % x.d, x.d, 2 * SqrtDigits)),
           Pow10(SqrtDigits))

\* the standard normal distribution function at 0.00, 0.01, ..., 4.00,
\* in units of 1/100000
NormalTable ==
  <<
     50000, 50399, 50798, 51197, 51595, 51994, 52392, 52790, 53188, 53586,
     53983, 54380, 54776, 55172, 55567, 55962, 56356, 56749, 57142, 57535,
     57926, 58317, 58706, 59095, 59483, 59871, 60257, 60642, 61026, 61409,
     61791, 62172, 62552, 62930, 63307, 63683, 64058, 64431, 64803, 65173,
     65542, 65910, 66276, 66640, 67003, 67364, 67724, 68082, 68439, 68793,
     69146, 69497, 69847, 70194, 70540, 70884, 71226, 71566, 71904, 72240,
     72575, 72907, 73237, 73565, 73891, 74215, 74537, 74857, 75175, 75490,
     75804, 76115, 76424, 76730, 77035, 77337, 77637, 77935, 78230, 78524,
     78814, 79103, 79389, 79673, 79955, 80234, 80511, 80785, 81057, 81327,
     81594, 81859, 82121, 82381, 82639, 82894, 83147, 83398, 83646, 83891,
     84134, 84375, 84614, 84849, 85083, 85314, 85543, 85769, 85993, 86214,
     86433, 86650, 86864, 87076, 87286, 87493, 87698, 87900, 88100, 88298,
     88493, 88686, 88877, 89065, 89251, 89435, 89617, 89796, 89973, 90147,
     90320, 90490, 90658, 90824, 90988, 91149, 91309, 91466, 91621, 91774,
     91924, 92073, 92220, 92364, 92507, 92647, 92785, 92922, 93056, 93189,
     93319, 93448, 93574, 93699, 93822, 93943, 94062, 94179, 94295, 94408,
     94520, 94630, 94738, 94845, 94950, 95053, 95154, 95254, 95352, 95449,
     95543, 95637, 95728, 95818, 95907, 95994, 96080, 96164, 96246, 96327,
     96407, 96485, 96562, 96638, 96712, 96784, 96856, 96926, 96995, 97062,
     97128, 97193, 97257, 97320, 97381, 97441, 97500, 97558, 97615, 97670,
     97725, 97778, 97831, 97882, 97932, 97982, 98030, 98077, 98124, 98169,
     98214, 98257, 98300, 98341, 98382, 98422, 98461, 98500, 98537, 98574,
     98610, 98645, 98679, 98713, 98745, 98778, 98809, 98840, 98870, 98899,
     98928, 98956, 98983, 99010, 99036, 99061, 99086, 99111, 99134, 99158,
     99180, 99202, 99224, 99245, 99266, 99286, 99305, 99324, 99343, 99361,
     99379, 99396, 99413, 99430, 99446, 99461, 99477, 99492, 99506, 99520,
     99534, 99547, 99560, 99573, 99585, 99598, 99609, 99621, 99632, 99643,
     99653, 99664, 99674, 99683, 99693, 99702, 99711, 99720, 99728, 99736,
     99744, 99752, 99760, 99767, 99774, 99781, 99788, 99795, 99801, 99807,
     99813, 99819, 99825, 99831, 99836, 99841, 99846, 99851, 99856, 99861,
     99865, 99869, 99874, 99878, 99882, 99886, 99889, 99893, 99896, 99900,
     99903, 99906, 99910, 99913, 99916, 99918, 99921, 99924, 99926, 99929,
     99931, 99934, 99936, 99938, 99940, 99942, 99944, 99946, 99948, 99950,
     99952, 99953, 99955, 99957, 99958, 99960, 99961, 99962, 99964, 99965,
     99966, 99968, 99969, 99970, 99971, 99972, 99973, 99974, 99975, 99976,
     99977, 99978, 99978, 99979, 99980, 99981, 99981, 99982, 99983, 99983,
     99984, 99985, 99985, 99986, 99986, 99987, 99987, 99988, 99988, 99989,
     99989, 99990, 99990, 99990, 99991, 99991, 99992, 99992, 99992, 99992,
     99993, 99993, 99993, 99994, 99994, 99994, 99994, 99995, 99995, 99995,
     99995, 99995, 99996, 99996, 99996, 99996, 99996, 99996, 99997, 99997,
     99997
  >>

\* jStat.normal.cdf(x, 0, 1): the table value at |x| rounded to two decimals,
\* 1 beyond the table, reflected for negative x
normalCdf(x) ==
  IF x.k = "nan" THEN NaN
  ELSE IF x.k = "inf" THEN (IF x.n > 0 THEN Num(1) ELSE Num(0))
  ELSE LET a == Abs(x)
           i == (ScaledFloor(a.n \div a.d, a.n % a.d, a.d, 3) + 5) \div 10
           p == IF Lt(Num(5), a) \/ i + 1 > Len(NormalTable) THEN Num(1)
                ELSE Rat(NormalTable[i + 1], 100000)
       IN IF x.n < 0 THEN Sub(Num(1), p) ELSE p

----------------------------------------------------------------------------
(* Meta-analysis: calculateMetaAnalysis *)

\* ss.sum over the sequence f
RECURSIVE SumSeq(_)
SumSeq(f) == IF Len(f) = 0 THEN Num(0) ELSE Add(f[1], SumSeq(Tail(f)))

\* const zCritical = 1.96
zCritical == Rat(196, 100)

\* s.variance || s.standardError ** 2
StudyVariance(s) == OrElse(s.variance, Sq(s.standardError))

\* studies.map(s => 1 / (s.variance || s.standardError ** 2))
Weights(st) == [i \in 1..Len(st) |-> Div(Num(1), StudyVariance(st[i]))]

\* ss.sum(studies.map((s, i) => w[i] * s.effectSize)) / ss.sum(w)
WeightedMean(st, w) ==
  Div(SumSeq([i \in 1..Len(st) |-> Mul(w[i], st[i].effectSize)]), SumSeq(w))

\* ss.sum(studies.map((s, i) => weights[i] * (s.effectSize - fixedEffect) ** 2))
QStatistic(st, w, fixedEffect) ==
  SumSeq([i \in 1..Len(st) |-> Mul(w[i], Sq(Sub(st[i].effectSize, fixedEffect)))])

\* totalWeight - ss.sum(weights.map(w => w ** 2)) / totalWeight
CTerm(w) ==
  Sub(SumSeq(w), Div(SumSeq([i \in 1..Len(w) |-> Sq(w[i])]), SumSeq(w)))

\* Math.max(0, (qStatistic - df) / c)
TauSquared(q, df, c) == Max(Num(0), Div(Sub(q, Num(df)), c))

ISquaredOfQ(q, df) == Max(Num(0), Mul(Div(q, q), Num(100)))

\* Math.max(0, ((qStatistic - df) / qStatistic) * 100)
ISquared(q, df) == Max(Num(0), Mul(Div(Sub(q, Num(df)), q), Num(100)))

\* studies.map(s => 1 / ((s.variance || s.standardError ** 2) + tauSquared))
RandomWeights(st, tauSquared) ==
  [i \in 1..Len(st) |-> Div(Num(1), Add(StudyVariance(st[i]), tauSquared))]

\* pooledEffect - zCritical * pooledSE
LowerCI(effect, se) == Sub(effect, Mul(zCritical, se))

\* pooledEffect + zCritical * pooledSE
UpperCI(effect, se) == Add(effect, Mul(zCritical, se))

\* 2 * (1 - jStat.normal.cdf(Math.abs(zValue), 0, 1))
PValue(zValue) == Mul(Num(2), Sub(Num(1), normalCdf(Abs(zValue))))

\* (randomWeights[i] / totalRandomWeight) * 100
WeightPercent(rw, total) == Mul(Div(rw, total), Num(100))

\* the entries of the returned studies array
StudyResults(st, rw) ==
  [i \in 1..Len(st) |->
     LET s == st[i]
         se == OrElse(s.standardError, Sqrt(s.variance))
     IN [name |-> s.studyName,
         effectSize |-> s.effectSize,
         lowerCI |-> LowerCI(s.effectSize, se),
         upperCI |-> UpperCI(s.effectSize, se),
         weight |-> WeightPercent(rw[i], SumSeq(rw))]]

\* the body of calculateMetaAnalysis after the check of the length
PooledResult(st) ==
  LET n == Len(st)
      weights == Weights(st)
      fixedEffect == WeightedMean(st, weights)
      qStatistic == QStatistic(st, weights, fixedEffect)
      df == n - 1
      c == CTerm(weights)
      tauSquared == TauSquared(qStatistic, df, c)
      randomWeights == RandomWeights(st, tauSquared)
      totalRandomWeight == SumSeq(randomWeights)
      pooledEffect == WeightedMean(st, randomWeights)
      pooledVariance == Div(Num(1), totalRandomWeight)
      pooledSE == Sqrt(pooledVariance)
      zValue == Div(pooledEffect, pooledSE)
  IN [ok |-> TRUE,
      pooledEffect |-> pooledEffect,
      pooledSE |-> pooledSE,
      lowerCI |-> LowerCI(pooledEffect, pooledSE),
      upperCI |-> UpperCI(pooledEffect, pooledSE),
      zValue |-> zValue,
      pValue |-> PValue(zValue),
      iSquared |-> ISquared(qStatistic, df),
      qStatistic |-> qStatistic,
      tauSquared |-> tauSquared,
      studies |-> StudyResults(st, randomWeights)]

\* throw new Error(message)
Throw(message) == [ok |-> FALSE, error |-> message]

calculateMetaAnalysisUnchecked(st) == PooledResult(st)

calculateMetaAnalysis(st) ==
  IF Len(st) = 0 THEN Throw("No studies provided") ELSE PooledResult(st)

LeaveOutNext(st, i) == [j \in 1..(Len(st) - 1) |-> IF j <= i THEN st[j] ELSE st[j + 1]]

\* studies.filter((_, j) => j !== i)
LeaveOut(st, i) == [j \in 1..(Len(st) - 1) |-> IF j < i THEN st[j] ELSE st[j + 1]]

CollectAll(rs) == [ok |-> TRUE, value |-> rs]

\* the first exception thrown while the sequence rs of call results is built,
\* or the array of the values
Collect(rs) ==
  IF \E i \in 1..Len(rs) : ~rs[i].ok
  THEN rs[CHOOSE i \in 1..Len(rs) : ~rs[i].ok /\ \A j \in 1..(i - 1) : rs[j].ok]
  ELSE [ok |-> TRUE, value |-> rs]

leaveOneOutAnalysis(st) ==
  Collect([i \in 1..Len(st) |-> calculateMetaAnalysis(LeaveOut(st, i))])

\* a string-valued optional property
Undefined == [defined |-> FALSE, str |-> ""]

Str(s) == [defined |-> TRUE, str |-> s]

GroupOfDefined(study) ==
  IF study.subgroup.defined THEN study.subgroup.str ELSE "Overall"

\* study.subgroup || 'Overall'
GroupOf(study) ==
  IF study.subgroup.defined /\ study.subgroup.str # "" THEN study.subgroup.str
  ELSE "Overall"

\* the Map groups after the first loop: keys in insertion order and their lists
RECURSIVE GroupStudies(_, _)
GroupStudies(st, groups) ==
  IF Len(st) = 0 THEN groups
  ELSE LET group == GroupOf(Head(st))
           has == \E i \in 1..Len(groups.keys) : groups.keys[i] = group
           keys == IF has THEN groups.keys ELSE Append(groups.keys, group)
           lists == [g \in DOMAIN groups.lists \cup {group} |->
                       IF g \in DOMAIN groups.lists THEN groups.lists[g] ELSE <<>>]
       IN GroupStudies(Tail(st),
            [keys |-> keys,
             lists |-> [lists EXCEPT ![group] = Append(@, Head(st))]])

EmptyMap == [keys |-> <<>>, lists |-> <<>>]

\* the Map results: one entry per non-empty group, in the order of groups
subgroupAnalysis(st) ==
  LET groups == GroupStudies(st, EmptyMap)
      filled == SelectSeq(groups.keys, LAMBDA g : Len(groups.lists[g]) > 0)
      rs == [i \in 1..Len(filled) |-> calculateMetaAnalysis(groups.lists[filled[i]])]
  IN IF \E i \in 1..Len(rs) : ~rs[i].ok THEN Collect(rs)
     ELSE [ok |-> TRUE,
           keys |-> filled,
           value |-> [g \in {filled[i] : i \in 1..Len(filled)} |->
                        rs[CHOOSE i \in 1..Len(filled) : filled[i] = g]]]

----------------------------------------------------------------------------
(* Sample size: calculateSampleSize *)

\* an optional numeric property that is absent
Missing == [k |-> "undef", n |-> 0, d |-> 1]

\* a destructuring default: { x = dflt }
OrDefault(x, dflt) == IF x.k = "undef" THEN dflt ELSE x

\* the standard normal quantiles, <<p, z>> with p in 1/1000 and z in 1/1000
QuantileTable ==
  {
    <<5, -2576>>, <<10, -2326>>, <<25, -1960>>, <<50, -1645>>, <<75, -1440>>,
    <<100, -1282>>, <<125, -1150>>, <<150, -1036>>, <<175, -935>>, <<200, -842>>,
    <<225, -755>>, <<250, -674>>, <<275, -598>>, <<300, -524>>, <<325, -454>>,
    <<350, -385>>, <<375, -319>>, <<400, -253>>, <<425, -189>>, <<450, -126>>,
    <<475, -63>>, <<500, 0>>, <<525, 63>>, <<550, 126>>, <<575, 189>>,
    <<600, 253>>, <<625, 319>>, <<650, 385>>, <<675, 454>>, <<700, 524>>,
    <<725, 598>>, <<750, 674>>, <<775, 755>>, <<800, 842>>, <<825, 935>>,
    <<850, 1036>>, <<875, 1150>>, <<900, 1282>>, <<925, 1440>>, <<950, 1645>>,
    <<975, 1960>>, <<990, 2326>>, <<995, 2576>>
  }

\* jStat.normal.inv(p, 0, 1) for a probability p of the table
normalInv(p) ==
  LET row == CHOOSE r \in QuantileTable : r[1] * p.d = 1000 * p.n
  IN Rat(row[2], 1000)

\* the natural logarithm, <<n, d, v>> for Math.log(n/d) = v/10000
LogTable ==
  {<<1, 3, -10986>>, <<1, 1, 0>>, <<3, 2, 4055>>, <<3, 1, 10986>>, <<9, 1, 21972>>}

\* Math.log
Log(x) ==
  IF x.k = "nan" \/ Sign(x) < 0 THEN NaN
  ELSE IF x.k = "inf" THEN x
  ELSE IF x.n = 0 THEN Inf(-1)
  ELSE LET row == CHOOSE r \in LogTable : r[1] = x.n /\ r[2] = x.d
       IN Rat(row[3], 10000)

\* tails === 2 ? jStat.normal.inv(1 - alpha / 2, 0, 1) : jStat.normal.inv(1 - alpha, 0, 1)
ZAlpha(alpha, tails) ==
  IF Eq(tails, Num(2)) THEN normalInv(Sub(Num(1), Div(alpha, Num(2))))
  ELSE normalInv(Sub(Num(1), alpha))

\* 0.5 * Math.log((1 + effectSize) / (1 - effectSize))
FisherZ(effectSize) ==
  Mul(Rat(1, 2), Log(Div(Add(Num(1), effectSize), Sub(Num(1), effectSize))))

\* n1 * (1 + ratio)
TotalN(n1, ratio) == Mul(n1, Add(Num(1), ratio))

TwoMeansN1Single(zAlpha, zBeta, effectSize) ==
  Ceil(Div(Sq(Add(zAlpha, zBeta)), Sq(effectSize)))

\* (2 * (zAlpha + zBeta) ** 2) / effectSize ** 2
TwoMeansClosedForm(zAlpha, zBeta, effectSize) ==
  Div(Mul(Num(2), Sq(Add(zAlpha, zBeta))), Sq(effectSize))

\* Math.ceil((2 * (zAlpha + zBeta) ** 2) / effectSize ** 2)
TwoMeansN1(zAlpha, zBeta, effectSize) ==
  Ceil(TwoMeansClosedForm(zAlpha, zBeta, effectSize))

\* (zAlpha + zBeta) ** 2 / (2 * h ** 2)
TwoProportionsClosedForm(zAlpha, zBeta, h) ==
  Div(Sq(Add(zAlpha, zBeta)), Mul(Num(2), Sq(h)))

\* Math.ceil((zAlpha + zBeta) ** 2 / (2 * h ** 2))
TwoProportionsN1(zAlpha, zBeta, h) ==
  Ceil(TwoProportionsClosedForm(zAlpha, zBeta, h))

\* ((zAlpha + zBeta) / z) ** 2 + 3
CorrelationClosedForm(zAlpha, zBeta, z) ==
  Add(Sq(Div(Add(zAlpha, zBeta), z)), Num(3))

\* Math.ceil(((zAlpha + zBeta) / z) ** 2 + 3)
CorrelationN(zAlpha, zBeta, z) == Ceil(CorrelationClosedForm(zAlpha, zBeta, z))

\* ((zAlpha + zBeta) / effectSize) ** 2
OneSampleMeanClosedForm(zAlpha, zBeta, effectSize) ==
  Sq(Div(Add(zAlpha, zBeta), effectSize))

\* Math.ceil(((zAlpha + zBeta) / effectSize) ** 2)
OneSampleMeanN(zAlpha, zBeta, effectSize) ==
  Ceil(OneSampleMeanClosedForm(zAlpha, zBeta, effectSize))

\* ((zAlpha + zBeta) / effectSize) ** 2 * 2
PairedClosedForm(zAlpha, zBeta, effectSize) ==
  Mul(Sq(Div(Add(zAlpha, zBeta), effectSize)), Num(2))

\* Math.ceil(((zAlpha + zBeta) / effectSize) ** 2 * 2)
PairedN(zAlpha, zBeta, effectSize) ==
  Ceil(PairedClosedForm(zAlpha, zBeta, effectSize))

\* a returned number
Return(x) == [ok |-> TRUE, value |-> x]

StudyTypes == {"two_means", "two_proportions", "correlation", "one_sample_mean", "paired"}

calculateSampleSize(p) ==
  LET ratio == OrDefault(p.ratio, Num(1))
      tails == OrDefault(p.tails, Num(2))
      zAlpha == ZAlpha(p.alpha, tails)
      zBeta == normalInv(p.power)
  IN CASE p.studyType = "two_means" ->
            Return(TotalN(TwoMeansN1(zAlpha, zBeta, p.effectSize), ratio))
       [] p.studyType = "two_proportions" ->
            Return(TotalN(TwoProportionsN1(zAlpha, zBeta, p.effectSize), ratio))
       [] p.studyType = "correlation" ->
            Return(CorrelationN(zAlpha, zBeta, FisherZ(p.effectSize)))
       [] p.studyType = "one_sample_mean" ->
            Return(OneSampleMeanN(zAlpha, zBeta, p.effectSize))
       [] p.studyType = "paired" ->
            Return(PairedN(zAlpha, zBeta, p.effectSize))
       [] OTHER -> Throw("Unknown study type")

\* the value calculateSampleSize computes for a known study type before
\* Math.ceil is applied: the closed form of the total sample size
UnroundedSampleSize(p) ==
  LET ratio == OrDefault(p.ratio, Num(1))
      tails == OrDefault(p.tails, Num(2))
      zAlpha == ZAlpha(p.alpha, tails)
      zBeta == normalInv(p.power)
  IN CASE p.studyType = "two_means" ->
            TotalN(TwoMeansClosedForm(zAlpha, zBeta, p.effectSize), ratio)
       [] p.studyType = "two_proportions" ->
            TotalN(TwoProportionsClosedForm(zAlpha, zBeta, p.effectSize), ratio)
       [] p.studyType = "correlation" ->
            CorrelationClosedForm(zAlpha, zBeta, FisherZ(p.effectSize))
       [] p.studyType = "one_sample_mean" ->
            OneSampleMeanClosedForm(zAlpha, zBeta, p.effectSize)
       [] p.studyType = "paired" ->
            PairedClosedForm(zAlpha, zBeta, p.effectSize)

----------------------------------------------------------------------------
(* Power: calculatePower *)

\* the noncentrality parameter lambda of the branch taken for studyType
Lambda(n, effectSize, studyType) ==
  CASE studyType = "two_means" ->
         LET nPerGroup == Div(n, Num(2))
         IN Mul(effectSize, Sqrt(Div(nPerGroup, Num(2))))
    [] studyType = "correlation" ->
         Mul(FisherZ(effectSize), Sqrt(Sub(n, Num(3))))
    [] OTHER -> Mul(effectSize, Sqrt(n))

\* 1 - jStat.normal.cdf(zAlpha - lambda, 0, 1)
PowerAt(zAlpha, lambda) == Sub(Num(1), normalCdf(Sub(zAlpha, lambda)))

calculatePower(n, effectSize, alpha, studyType) ==
  LET zAlpha == normalInv(Sub(Num(1), Div(alpha, Num(2))))
  IN Return(PowerAt(zAlpha, Lambda(n, effectSize, studyType)))

----------------------------------------------------------------------------
(* Binary64 rounding, where a result is passed to Math.ceil or compared with  *)
(* a bound: a double is the                                                   *)
(* record [v, off] that stands for v + off * 2^-59, v being the exact result  *)
(* of the arithmetic on the decimal inputs and off the accumulated rounding.  *)

\* the largest k in 1..s with m * 2^k below 2^31
ShiftStep(s, m) ==
  LET most == IF s < 29 THEN s ELSE 29
  IN CHOOSE k \in 1..most :
       /\ 2 ^ k <= 2147483647 \div m
       /\ k = most \/ 2 ^ (k + 1) > 2147483647 \div m

RECURSIVE ShiftMod(_, _, _)
\* r * 2^s modulo m for 0 <= r < m, by steps of as many doublings as the
\* integers allow
ShiftMod(r, s, m) ==
  IF s = 0 THEN r % m
  ELSE Only({ShiftMod((r * (2 ^ k)) % m, s - k, m) : k \in {ShiftStep(s, m)}})

\* 2^e as a number, for an integer e
Pow2(e) == IF e >= 0 THEN Num(2 ^ e) ELSE Rat(1, 2 ^ (-e))

\* the binary exponent floor(log2 a) of a number a > 0
Exponent(a) ==
  IF a.n >= a.d
  THEN CHOOSE e \in 0..29 : 2 ^ e <= a.n \div a.d /\ a.n \div a.d < 2 ^ (e + 1)
  ELSE LET inverse == (a.d + a.n - 1) \div a.n
       IN -(CHOOSE k \in 1..30 : 2 ^ (k - 1) < inverse /\ inverse <= 2 ^ k)

\* Math.floor of a finite number, as an integer
Floor(x) == x.n \div x.d

\* the offset of the double nearest to a + o * 2^-59, for a > 0 of binary
\* exponent e: x is the part of (a + o * 2^-59) * 2^(52 - e) beyond a whole
\* number of the parity oddPart, rho the same for a alone
Nearest(a, o, b, e, rho, oddPart, x) ==
  LET q0 == Floor(x)
      fr == Sub(x, Num(q0))
      odd == oddPart # (q0 % 2 = 1)
      up == \/ Lt(Rat(1, 2), fr)
            \/ fr = Rat(1, 2) /\ (b > 0 \/ (b = 0 /\ odd))
      q == IF up THEN q0 + 1 ELSE q0
  IN Mul(Sub(Num(q), rho), Pow2(7 + e))

\* the same, the fraction of a * 2^(52 - e) found modulo the denominator of
\* a, its parity modulo twice the denominator
RoundAt(a, o, b, e) ==
  Only({Only({Nearest(a, o, b, e, rho, oddPart, x) :
                x \in {Add(rho, Div(o, Pow2(7 + e)))}}) :
          rho \in {Rat(ShiftMod(a.n % a.d, 52 - e, a.d), a.d)},
          oddPart \in {ShiftMod(a.n % (2 * a.d), 52 - e, 2 * a.d) >= a.d}})

\* the same, for a > 0: a power of two rounded from below has the exponent
\* of the binade below it
RoundMagnitude(a, o, b) ==
  Only({RoundAt(a, o, b, IF a = Pow2(e0) /\ Sign(o) < 0 THEN e0 - 1 ELSE e0) :
          e0 \in {Exponent(a)}})

\* round-to-nearest, ties to even, of a value x with offset o; where x is 0
\* the result is the offset itself (the difference of two nearby doubles is
\* a double)
RoundValue(x, o, b) ==
  IF x.k # "num" THEN [v |-> x, off |-> Num(0)]
  ELSE IF x.n = 0 THEN [v |-> x, off |-> o]
  ELSE IF Sign(x) < 0
  THEN Only({[v |-> x, off |-> Neg(r)] : r \in {RoundMagnitude(Neg(x), Neg(o), -b)}})
  ELSE Only({[v |-> x, off |-> r] : r \in {RoundMagnitude(x, o, b)}})

\* round-to-nearest, ties to even: the double nearest to v + off * 2^-59.
\* bias is the sign of the part of the exact result beyond off (0 when off is
\* exact), which decides a tie.
RoundToDouble(v, off, bias) ==
  Only({RoundValue(x, o, b) : x \in {v}, o \in {off}, b \in {bias}})

\* the double denoted by a decimal literal
DoubleOf(v) == RoundToDouble(v, Num(0), 0)

\* a - b on doubles
SubDouble(x, y) ==
  Only({RoundToDouble(Sub(a.v, b.v), Sub(a.off, b.off), 0) : a \in {x}, b \in {y}})

\* a / b on doubles: the quotient to first order in the roundings of a and b,
\* a tie decided by the sign of the second-order part
DivDouble(x, y) ==
  LET Quotient(a, b) ==
        IF a.v.k # "num" \/ b.v.k # "num" \/ b.v.n = 0
        THEN [v |-> Div(a.v, b.v), off |-> Num(0)]
        ELSE Only({RoundToDouble(q, Neg(Div(w, b.v)), Sign(b.off) * Sign(w)) :
                     q \in {Div(a.v, b.v)},
                     w \in {Sub(Mul(Div(a.v, b.v), b.off), a.off)}})
  IN Only({Quotient(a, b) : a \in {x}, b \in {y}})

\* a + b on doubles
AddDouble(x, y) ==
  Only({RoundToDouble(Add(a.v, b.v), Add(a.off, b.off), 0) : a \in {x}, b \in {y}})

\* a * b on doubles: the product to first order in the roundings of a and b,
\* a tie decided by the sign of the second-order part
MulDouble(x, y) ==
  Only({RoundToDouble(Mul(a.v, b.v), Add(Mul(a.off, b.v), Mul(a.v, b.off)),
                      Sign(a.off) * Sign(b.off)) : a \in {x}, b \in {y}})

\* the number x is the square of a rational
IsSquare(x) ==
  /\ x.k = "num" /\ x.n >= 0
  /\ ISqrt(x.n) * ISqrt(x.n) = x.n
  /\ ISqrt(x.d) * ISqrt(x.d) = x.d

\* Math.sqrt on doubles: where the exact argument is the square of a rational
\* r, the double nearest to the root, r to first order in the rounding of the
\* argument; elsewhere the root to SqrtDigits decimals
SqrtDouble(x) ==
  LET Root(a, r) ==
        IF r.n = 0 THEN [v |-> r, off |-> Num(0)]
        ELSE RoundToDouble(r, Div(a.off, Mul(Num(2), r)),
                           IF Sign(a.off) = 0 THEN 0 ELSE -1)
  IN Only({IF IsSquare(a.v)
           THEN Only({Root(a, r) : r \in {Rat(ISqrt(a.v.n), ISqrt(a.v.d))}})
           ELSE [v |-> Sqrt(a.v), off |-> Num(0)] : a \in {x}})

\* a < b on doubles
LessDouble(x, y) == Lt(x.v, y.v) \/ (x.v = y.v /\ Lt(x.off, y.off))

\* Math.max(a, b) on doubles
MaxDouble(x, y) ==
  IF x.v.k = "nan" \/ y.v.k = "nan" THEN [v |-> NaN, off |-> Num(0)]
  ELSE IF LessDouble(x, y) THEN y ELSE x

\* Math.min(a, b) on doubles
MinDouble(x, y) ==
  IF x.v.k = "nan" \/ y.v.k = "nan" THEN [v |-> NaN, off |-> Num(0)]
  ELSE IF LessDouble(y, x) THEN y ELSE x

\* Math.abs on doubles
AbsDouble(x) ==
  IF Sign(x.v) < 0 THEN [v |-> Neg(x.v), off |-> Neg(x.off)] ELSE x

\* Math.ceil of a double: an integer v rounded upwards is above v
CeilDouble(x) ==
  IF x.v.k = "num" /\ x.v.d = 1 /\ Sign(x.off) > 0 THEN Num(x.v.n + 1)
  ELSE Ceil(x.v)

\* x !== 0 on doubles
NonZeroDouble(x) == ~(x.v.k = "num" /\ x.v.n = 0)

----------------------------------------------------------------------------
(* Clinical calculators: calculateNNT *)

\* let ci95 = { lower: 0, upper: Infinity }
DefaultCI == [lower |-> Num(0), upper |-> Inf(1)]

\* an optional number that is given and not 0: the test n1 && n2
Given(n) == n.k # "undef" /\ Truthy(n)

\* arrUpper !== 0 ? Math.abs(1 / arrUpper) : Infinity
ReciprocalOrInfinity(x) ==
  IF ~(x.k = "num" /\ x.n = 0) THEN Abs(Div(Num(1), x)) ELSE Inf(1)

\* the Wald interval, computed on the exact values of the rates
WaldCI(c, t, arr, n1, n2) ==
  LET se == Sqrt(Add(Div(Mul(c, Sub(Num(1), c)), n1),
                     Div(Mul(t, Sub(Num(1), t)), n2)))
      arrLower == Sub(arr, Mul(zCritical, se))
      arrUpper == Add(arr, Mul(zCritical, se))
  IN [lower |-> ReciprocalOrInfinity(arrUpper),
      upper |-> ReciprocalOrInfinity(arrLower)]

\* the template strings of the interpretation, as their pieces
Interpretation(nnt, arr) ==
  IF nnt.v = Inf(1) THEN <<"No difference between groups">>
  ELSE IF Sign(arr.v) > 0
       THEN <<"NNT = ", CeilDouble(nnt), ": Treat ", CeilDouble(nnt),
              " patients to prevent 1 event">>
  ELSE <<"NNH = ", CeilDouble(nnt), ": Treating ", CeilDouble(nnt),
         " patients causes 1 additional event">>

calculateNNT(eventRateControl, eventRateTreatment, n1, n2) ==
  LET Result(c, t, arr, rrr, nnt) ==
        LET ci95 == IF Given(n1) /\ Given(n2) /\ NonZeroDouble(arr)
                    THEN WaldCI(c.v, t.v, arr.v, n1, n2)
                    ELSE DefaultCI
        IN [ok |-> TRUE, nnt |-> nnt, arr |-> arr, rrr |-> rrr, ci95 |-> ci95,
            interpretation |-> Interpretation(nnt, arr)]
      Rates(c, t, arr) ==
        Only({Result(c, t, arr, rrr, nnt) :
                rrr \in {DivDouble(arr, c)},
                nnt \in {IF NonZeroDouble(arr)
                         THEN AbsDouble(DivDouble(DoubleOf(Num(1)), arr))
                         ELSE [v |-> Inf(1), off |-> Num(0)]}})
      Difference(c, t) == Only({Rates(c, t, arr) : arr \in {SubDouble(c, t)}})
  IN Only({Difference(c, t) : c \in {eventRateControl}, t \in {eventRateTreatment}})

----------------------------------------------------------------------------
(* Clinical calculators: calculateEGFR *)

\* a >= b
Ge(x, y) == Lt(y, x) \/ Eq(x, y)

\* Math.min(a, b): NaN when either argument is NaN
Min(x, y) ==
  IF x.k = "nan" \/ y.k = "nan" THEN NaN
  ELSE IF Lt(y, x) THEN y ELSE x

\* Math.pow, <<n, d, e, v>> for Math.pow(n/d, e/1000) = v/10000: the powers
\* -0.302, -0.241 and -1.2 of creatinine / kappa, and 0.9938 to the age
PowTable ==
  {
    <<10, 9, -1200, 8812>>, <<9, 7, -1200, 7397>>, <<4, 3, -1200, 7081>>,
    <<10, 7, -1200, 6518>>, <<5, 3, -1200, 5417>>, <<12, 7, -1200, 5237>>,
    <<2, 1, -1200, 4353>>, <<15, 7, -1200, 4007>>, <<20, 9, -1200, 3836>>,
    <<25, 9, -1200, 2935>>, <<20, 7, -1200, 2837>>, <<10, 3, -1200, 2358>>,
    <<30, 7, -1200, 1744>>, <<40, 9, -1200, 1670>>, <<40, 7, -1200, 1235>>,
    <<80, 9, -1200, 727>>, <<80, 7, -1200, 538>>, <<5, 9, -302, 11942>>,
    <<5, 7, -241, 10845>>, <<4969, 5000, 18000, 8941>>, <<4969, 5000, 20000, 8830>>,
    <<4969, 5000, 31000, 8246>>, <<4969, 5000, 40000, 7798>>, <<4969, 5000, 50000, 7327>>,
    <<4969, 5000, 51000, 7282>>, <<4969, 5000, 53000, 7192>>, <<4969, 5000, 72000, 6390>>,
    <<4969, 5000, 80000, 6080>>, <<4969, 5000, 83000, 5968>>, <<4969, 5000, 84000, 5931>>
  }

\* Math.pow(b, ex), for the arguments of the table; Math.pow(1, ex) is 1
Pow(b, ex) ==
  IF b = Num(1) THEN Num(1)
  ELSE LET row == CHOOSE r \in PowTable :
                    r[1] = b.n /\ r[2] = b.d /\ r[3] * ex.d = 1000 * ex.n
       IN Rat(row[4], 10000)

\* the number x >= 0 rounded half up to k decimals
RoundTo(x, k) ==
  IF x.k # "num" THEN x
  ELSE LET y == Add(x, Rat(1, 2 * Pow10(k)))
       IN Rat(ScaledFloor(y.n \div y.d, y.n % y.d, y.d, k), Pow10(k))

\* a * b of the product that gives eGFR, kept to two decimals
Times(x, y) == RoundTo(Mul(x, y), 2)

\* Math.round(eGFR)
RoundWhole(x) == RoundTo(x, 0)

\* Math.round(eGFR * 10) / 10
RoundOneDecimal(x) == RoundTo(x, 1)

\* sex === 'female' ? 0.7 : 0.9
Kappa(sex) == IF sex = "female" THEN Rat(7, 10) ELSE Rat(9, 10)

\* sex === 'female' ? -0.241 : -0.302
AlphaOf(sex) == IF sex = "female" THEN Rat(-241, 1000) ELSE Rat(-302, 1000)

CkdStageStrict(eGFR) ==
  IF Lt(Num(90), eGFR) THEN "G1 (Normal or high)"
  ELSE IF Lt(Num(60), eGFR) THEN "G2 (Mildly decreased)"
  ELSE IF Lt(Num(45), eGFR) THEN "G3a (Mildly to moderately decreased)"
  ELSE IF Lt(Num(30), eGFR) THEN "G3b (Moderately to severely decreased)"
  ELSE IF Lt(Num(15), eGFR) THEN "G4 (Severely decreased)"
  ELSE "G5 (Kidney failure)"

\* the chain of comparisons that determines the CKD stage
CkdStage(eGFR) ==
  IF Ge(eGFR, Num(90)) THEN "G1 (Normal or high)"
  ELSE IF Ge(eGFR, Num(60)) THEN "G2 (Mildly decreased)"
  ELSE IF Ge(eGFR, Num(45)) THEN "G3a (Mildly to moderately decreased)"
  ELSE IF Ge(eGFR, Num(30)) THEN "G3b (Moderately to severely decreased)"
  ELSE IF Ge(eGFR, Num(15)) THEN "G4 (Severely decreased)"
  ELSE "G5 (Kidney failure)"

\* the interpretation of the eGFR
KidneyFunction(eGFR) ==
  IF Ge(eGFR, Num(60)) THEN "Normal or mildly reduced kidney function"
  ELSE IF Ge(eGFR, Num(30)) THEN "Moderate CKD - Consider nephrology referral"
  ELSE "Severe CKD - Nephrology referral recommended"

\* the CKD-EPI 2021 creatinine equation, before rounding
CkdEpi(creatinine, age, sex) ==
  LET kappa == Kappa(sex)
      alpha == AlphaOf(sex)
      minCrKappa == Min(Div(creatinine, kappa), Num(1))
      maxCrKappa == Max(Div(creatinine, kappa), Num(1))
      eGFR == Times(Times(Times(Num(142), Pow(minCrKappa, alpha)),
                          Pow(maxCrKappa, Rat(-1200, 1000))),
                    Pow(Rat(9938, 10000), age))
  IN IF sex = "female" THEN Times(eGFR, Rat(1012, 1000)) ELSE eGFR

calculateEGFR(creatinine, age, sex, useCysC) ==
  LET eGFR == RoundOneDecimal(CkdEpi(creatinine, age, sex))
  IN [ok |-> TRUE,
      eGFR |-> eGFR,
      ckdStage |-> CkdStage(eGFR),
      interpretation |-> KidneyFunction(eGFR),
      formula |-> "CKD-EPI 2021 (race-free)"]

----------------------------------------------------------------------------
(* Clinical calculators: calculateCURB65 *)

\* an optional boolean parameter: absent, or given with a value
NoFlag == [given |-> FALSE, flag |-> FALSE]

Flag(b) == [given |-> TRUE, flag |-> b]

\* a parameter default: isUraBUN: boolean = false
FlagOrDefault(x, dflt) == IF x.given THEN x.flag ELSE dflt

\* if (criterion) { score++; details.push(detail) }
Criterion(criterion, detail, acc) ==
  IF criterion
  THEN [score |-> acc.score + 1, details |-> Append(acc.details, detail)]
  ELSE acc

BloodPressureStrict(systolic, diastolic) ==
  Lt(systolic, Num(90)) \/ Lt(diastolic, Num(60))

\* bloodPressureSystolic < 90 || bloodPressureDiastolic <= 60
BloodPressureLow(systolic, diastolic) ==
  Lt(systolic, Num(90)) \/ Ge(Num(60), diastolic)

\* const mortality30DayMap: Record<number, string>
mortality30DayMap ==
  [i \in 0..5 |->
     CASE i = 0 -> "0.6%" [] i = 1 -> "2.7%" [] i = 2 -> "6.8%"
       [] i = 3 -> "14.0%" [] i = 4 -> "27.8%" [] i = 5 -> "27.8%"]

\* const recommendationMap: Record<number, string>
recommendationMap ==
  [i \in 0..5 |->
     CASE i \in {0, 1} -> "Low risk - Consider outpatient treatment"
       [] i = 2 -> "Moderate risk - Consider short inpatient stay or hospital-supervised outpatient treatment"
       [] i \in {3, 4, 5} -> "Severe pneumonia - Hospitalize, consider ICU"]

\* map[key]: undefined for a key the object does not have
Lookup(map, key) == IF key \in DOMAIN map THEN Str(map[key]) ELSE Undefined

calculateCURB65(confusion, urea, respiratoryRate, bloodPressureSystolic, bloodPressureDiastolic, age, isUraBUN) ==
  LET bun == FlagOrDefault(isUraBUN, FALSE)
      ureaThreshold == IF bun THEN Num(19) ELSE Num(7)
      start == [score |-> 0, details |-> <<>>]
      c == Criterion(confusion, <<"Confusion: +1">>, start)
      u == Criterion(Lt(ureaThreshold, urea),
                     <<"Urea/", IF bun THEN "BUN" ELSE "mmol/L", " > ",
                       ureaThreshold, ": +1">>, c)
      r == Criterion(Ge(respiratoryRate, Num(30)), <<"Respiratory Rate >=30: +1">>, u)
      b == Criterion(BloodPressureLow(bloodPressureSystolic, bloodPressureDiastolic),
                     <<"BP <90 systolic or <=60 diastolic: +1">>, r)
      a == Criterion(Ge(age, Num(65)), <<"Age >=65: +1">>, b)
  IN [ok |-> TRUE,
      score |-> a.score,
      mortality30Day |-> Lookup(mortality30DayMap, a.score),
      recommendation |-> Lookup(recommendationMap, a.score),
      details |-> a.details]

----------------------------------------------------------------------------
(* Clinical calculators: calculateCHADSVASc *)

\* if (criterion) score += points
Points(criterion, points) == IF criterion THEN points ELSE 0

AgePointsFlat(age) == IF Ge(age, Num(65)) THEN 1 ELSE 0

\* if (age >= 75) score += 2; else if (age >= 65) score += 1
AgePoints(age) ==
  IF Ge(age, Num(75)) THEN 2 ELSE IF Ge(age, Num(65)) THEN 1 ELSE 0

\* const strokeRiskMap: Record<number, string>
strokeRiskMap ==
  [i \in 0..9 |->
     CASE i = 0 -> "0%" [] i = 1 -> "1.3%" [] i = 2 -> "2.2%" [] i = 3 -> "3.2%"
       [] i = 4 -> "4.0%" [] i = 5 -> "6.7%" [] i = 6 -> "9.8%" [] i = 7 -> "9.6%"
       [] i = 8 -> "6.7%" [] i = 9 -> "15.2%"]

\* Math.min on integers
MinInt(a, b) == IF b < a THEN b ELSE a

\* the if-chain on score and sex
AnticoagulationAdvice(score, sex) ==
  IF score = 0 /\ sex = "male" THEN "No anticoagulation recommended"
  ELSE IF score = 1 /\ sex = "male" THEN "Consider anticoagulation (weak indication)"
  ELSE IF score = 1 /\ sex = "female"
  THEN "No anticoagulation (score driven by female sex alone)"
  ELSE "Oral anticoagulation recommended (DOAC preferred over warfarin)"

calculateCHADSVASc(age, sex, chf, hypertension, diabetes, stroke, vascularDisease) ==
  LET score == Points(chf, 1) + Points(hypertension, 1) + AgePoints(age)
               + Points(diabetes, 1) + Points(stroke, 2)
               + Points(vascularDisease, 1) + Points(sex = "female", 1)
  IN [ok |-> TRUE,
      score |-> score,
      annualStrokeRisk |-> Lookup(strokeRiskMap, MinInt(score, 9)),
      recommendation |-> AnticoagulationAdvice(score, sex)]

----------------------------------------------------------------------------
(* Clinical calculators: calculateWellsDVT *)

WellsProbabilityStrict(score) ==
  IF score < 0
  THEN [probability |-> "Low", prevalence |-> "5%",
        recommendation |-> "D-dimer testing. If negative, DVT excluded. If positive, ultrasound."]
  ELSE IF score < 2
  THEN [probability |-> "Moderate", prevalence |-> "17%",
        recommendation |-> "D-dimer testing. If negative, DVT excluded. If positive, ultrasound."]
  ELSE [probability |-> "High", prevalence |-> "53%",
        recommendation |-> "Proceed directly to ultrasound. D-dimer not reliable to exclude."]

\* the if-chain score <= 0 / score <= 2 / else
WellsProbability(score) ==
  IF score <= 0
  THEN [probability |-> "Low", prevalence |-> "5%",
        recommendation |-> "D-dimer testing. If negative, DVT excluded. If positive, ultrasound."]
  ELSE IF score <= 2
  THEN [probability |-> "Moderate", prevalence |-> "17%",
        recommendation |-> "D-dimer testing. If negative, DVT excluded. If positive, ultrasound."]
  ELSE [probability |-> "High", prevalence |-> "53%",
        recommendation |-> "Proceed directly to ultrasound. D-dimer not reliable to exclude."]

calculateWellsDVT(activeCancer, paralysisParesis, bedridden3Days, localizedTenderness, entireLegSwollen, calfSwelling3cm, pittingEdema, collateralVeins, previousDVT, alternativeDiagnosisLikely) ==
  LET score == Points(activeCancer, 1) + Points(paralysisParesis, 1)
               + Points(bedridden3Days, 1) + Points(localizedTenderness, 1)
               + Points(entireLegSwollen, 1) + Points(calfSwelling3cm, 1)
               + Points(pittingEdema, 1) + Points(collateralVeins, 1)
               + Points(previousDVT, 1) + Points(alternativeDiagnosisLikely, -2)
      class == WellsProbability(score)
  IN [ok |-> TRUE,
      score |-> score,
      probability |-> class.probability,
      prevalence |-> class.prevalence,
      recommendation |-> class.recommendation]

----------------------------------------------------------------------------
(* Clinical calculators: calculateAPACHEII_APS *)

\* Temperature scoring
TemperaturePoints(temperature) ==
  IF Ge(temperature, Num(41)) THEN 4
  ELSE IF Ge(temperature, Num(39)) THEN 3
  ELSE IF Ge(temperature, Rat(77, 2)) THEN 1
  ELSE IF Ge(temperature, Num(36)) THEN 0
  ELSE IF Ge(temperature, Num(34)) THEN 1
  ELSE IF Ge(temperature, Num(32)) THEN 2
  ELSE IF Ge(temperature, Num(30)) THEN 3
  ELSE 4

\* MAP scoring
MapPoints(meanArterialPressure) ==
  IF Ge(meanArterialPressure, Num(160)) THEN 4
  ELSE IF Ge(meanArterialPressure, Num(130)) THEN 3
  ELSE IF Ge(meanArterialPressure, Num(110)) THEN 2
  ELSE IF Ge(meanArterialPressure, Num(70)) THEN 0
  ELSE IF Ge(meanArterialPressure, Num(50)) THEN 2
  ELSE 4

\* Heart rate scoring
HeartRatePoints(heartRate) ==
  IF Ge(heartRate, Num(180)) THEN 4
  ELSE IF Ge(heartRate, Num(140)) THEN 3
  ELSE IF Ge(heartRate, Num(110)) THEN 2
  ELSE IF Ge(heartRate, Num(70)) THEN 0
  ELSE IF Ge(heartRate, Num(55)) THEN 2
  ELSE IF Ge(heartRate, Num(40)) THEN 3
  ELSE 4

\* Respiratory rate scoring
RespiratoryRatePoints(respiratoryRate) ==
  IF Ge(respiratoryRate, Num(50)) THEN 4
  ELSE IF Ge(respiratoryRate, Num(35)) THEN 3
  ELSE IF Ge(respiratoryRate, Num(25)) THEN 1
  ELSE IF Ge(respiratoryRate, Num(12)) THEN 0
  ELSE IF Ge(respiratoryRate, Num(10)) THEN 1
  ELSE IF Ge(respiratoryRate, Num(6)) THEN 2
  ELSE 4

\* Age points
ApacheAgePoints(age) ==
  IF Ge(age, Num(75)) THEN 6
  ELSE IF Ge(age, Num(65)) THEN 5
  ELSE IF Ge(age, Num(55)) THEN 3
  ELSE IF Ge(age, Num(45)) THEN 2
  ELSE 0

\* Chronic health points
ChronicHealthPoints(chronicHealth) ==
  IF chronicHealth = "emergency" THEN 5
  ELSE IF chronicHealth = "elective" THEN 2
  ELSE 0

MortalityEstimateStrict(score) ==
  IF Lt(score, Num(4)) THEN "~4%"
  ELSE IF Lt(score, Num(9)) THEN "~8%"
  ELSE IF Lt(score, Num(14)) THEN "~15%"
  ELSE IF Lt(score, Num(19)) THEN "~25%"
  ELSE IF Lt(score, Num(24)) THEN "~40%"
  ELSE IF Lt(score, Num(29)) THEN "~55%"
  ELSE IF Lt(score, Num(34)) THEN "~75%"
  ELSE ">85%"

\* Estimate mortality (approximate)
MortalityEstimate(score) ==
  IF Ge(Num(4), score) THEN "~4%"
  ELSE IF Ge(Num(9), score) THEN "~8%"
  ELSE IF Ge(Num(14), score) THEN "~15%"
  ELSE IF Ge(Num(19), score) THEN "~25%"
  ELSE IF Ge(Num(24), score) THEN "~40%"
  ELSE IF Ge(Num(29), score) THEN "~55%"
  ELSE IF Ge(Num(34), score) THEN "~75%"
  ELSE ">85%"

\* the category chain score <= 10 / 20 / 30
SeverityCategory(score) ==
  IF Ge(Num(10), score) THEN "Low severity"
  ELSE IF Ge(Num(20), score) THEN "Moderate severity"
  ELSE IF Ge(Num(30), score) THEN "High severity"
  ELSE "Very high severity"

\* the score after the seven additions, and the result built from it
ApacheResult(temperature, meanArterialPressure, heartRate, respiratoryRate, gcs, age, chronicHealth, extra) ==
  LET vitals == TemperaturePoints(temperature) + MapPoints(meanArterialPressure)
                + HeartRatePoints(heartRate) + RespiratoryRatePoints(respiratoryRate)
      coma == Add(Num(vitals), Sub(Num(15), gcs))
      score == Add(coma, Num(ApacheAgePoints(age) + ChronicHealthPoints(chronicHealth) + extra))
  IN Only({[ok |-> TRUE,
            score |-> s,
            mortalityEstimate |-> MortalityEstimate(s),
            category |-> SeverityCategory(s)] : s \in {score}})

calculateAPACHEII_WithRenal(temperature, meanArterialPressure, heartRate, respiratoryRate, oxygenation, fio2High, arterialPH, sodium, potassium, creatinine, acuteRenalFailure, hematocrit, wbc, gcs, age, chronicHealth) ==
  ApacheResult(temperature, meanArterialPressure, heartRate, respiratoryRate,
               gcs, age, chronicHealth,
               IF Ge(creatinine, Num(2)) THEN (IF acuteRenalFailure THEN 6 ELSE 3) ELSE 0)

calculateAPACHEII_APS(temperature, meanArterialPressure, heartRate, respiratoryRate, oxygenation, fio2High, arterialPH, sodium, potassium, creatinine, acuteRenalFailure, hematocrit, wbc, gcs, age, chronicHealth) ==
  ApacheResult(temperature, meanArterialPressure, heartRate, respiratoryRate,
               gcs, age, chronicHealth, 0)

----------------------------------------------------------------------------
(* Clinical calculators: calculateProportionCI *)

\* confidenceLevel === 0.95 ? 1.96 : confidenceLevel === 0.99 ? 2.576 : 1.645
ZScore(confidenceLevel) ==
  IF Eq(confidenceLevel, Rat(95, 100)) THEN Rat(196, 100)
  ELSE IF Eq(confidenceLevel, Rat(99, 100)) THEN Rat(2576, 1000)
  ELSE Rat(1645, 1000)

calculateProportionCI(successes, total, confidenceLevel) ==
  LET level == IF confidenceLevel = Missing THEN Rat(95, 100) ELSE confidenceLevel
      Unit(i) == DoubleOf(Num(i))
      Interval(p, center, offset) ==
        [ok |-> TRUE,
         proportion |-> p,
         lower |-> MaxDouble(Unit(0), SubDouble(center, offset)),
         upper |-> MinDouble(Unit(1), AddDouble(center, offset)),
         method |-> "Wilson Score Interval"]
      Wilson(p, z, n, zz, denominator) ==
        Only({Interval(p, center, offset) :
                center \in {DivDouble(AddDouble(p, DivDouble(zz, MulDouble(Unit(2), n))),
                                      denominator)},
                offset \in {MulDouble(DivDouble(z, denominator),
                                      SqrtDouble(AddDouble(
                                        DivDouble(MulDouble(p, SubDouble(Unit(1), p)), n),
                                        DivDouble(zz, MulDouble(MulDouble(Unit(4), n), n)))))}})
      Squared(p, z, n, zz) ==
        Only({Wilson(p, z, n, zz, denominator) :
                denominator \in {AddDouble(Unit(1), DivDouble(zz, n))}})
      Proportion(p, z, n) == Only({Squared(p, z, n, zz) : zz \in {MulDouble(z, z)}})
  IN Only({Proportion(p, z, n) :
             p \in {DivDouble(DoubleOf(successes), DoubleOf(total))},
             z \in {DoubleOf(ZScore(level))},
             n \in {DoubleOf(total)}})

----------------------------------------------------------------------------
(* Clinical calculators: calculateDiagnosticTest *)

\* The rates are kept as exact quotients of the counts; on the tables of
\* DiagnosticArgs the binary64 quotients round at the third (plr: second)
\* decimal as the exact ones do.

\* count > 0 ? part / count : 0
RateOrZero(part, count) == IF Lt(Num(0), count) THEN Div(part, count) ELSE Num(0)

calculateDiagnosticTest(truePositive, falsePositive, falseNegative, trueNegative) ==
  LET total == Add(Add(Add(truePositive, falsePositive), falseNegative), trueNegative)
      diseased == Add(truePositive, falseNegative)
      healthy == Add(falsePositive, trueNegative)
      testPositive == Add(truePositive, falsePositive)
      testNegative == Add(falseNegative, trueNegative)
      sensitivity == RateOrZero(truePositive, diseased)
      specificity == RateOrZero(trueNegative, healthy)
      ppv == RateOrZero(truePositive, testPositive)
      npv == RateOrZero(trueNegative, testNegative)
      plr == IF Lt(specificity, Num(1)) THEN Div(sensitivity, Sub(Num(1), specificity))
             ELSE Inf(1)
      nlr == IF Lt(Num(0), sensitivity) THEN Div(Sub(Num(1), sensitivity), specificity)
             ELSE Inf(1)
      accuracy == RateOrZero(Add(truePositive, trueNegative), total)
      prevalence == RateOrZero(diseased, total)
  IN [ok |-> TRUE,
      sensitivity |-> RoundTo(sensitivity, 3),
      specificity |-> RoundTo(specificity, 3),
      ppv |-> RoundTo(ppv, 3),
      npv |-> RoundTo(npv, 3),
      plr |-> RoundTo(plr, 2),
      nlr |-> RoundTo(nlr, 3),
      accuracy |-> RoundTo(accuracy, 3),
      prevalence |-> RoundTo(prevalence, 3)]

----------------------------------------------------------------------------
(* The selected-articles store: SelectedArticlesProvider *)

\* prev.map(a => a.id), as a Set
IdsOf(list) == {list[i].id : i \in 1..Len(list)}

\* articles.filter(a => !existingIds.has(a.id))
NotIn(articles, existingIds) == SelectSeq(articles, LAMBDA a : a.id \notin existingIds)

\* the updater of addArticles: prev => [...prev, ...newArticles]
AddUpdater(prev, articles) == prev \o NotIn(articles, IdsOf(prev))

\* the updater of removeArticles: prev => prev.filter(a => !idsToRemove.has(a.id))
RemoveUpdater(prev, articleIds) ==
  SelectSeq(prev, LAMBDA a : a.id \notin {articleIds[i] : i \in 1..Len(articleIds)})

\* selectedArticles.some(a => a.id === articleId), on the state of the render
\* that created the callback
isSelected(articleId) == articleId \in IdsOf(selectedArticles)

----------------------------------------------------------------------------
(* The cascading fallback of the AI providers: callAI *)

\* priorityList: ['groq_70b', 'groq_8b', 'lovable']
priorityList == <<"groq_70b", "groq_8b", "lovable">>

\* providers[key].name
ProviderName(key) ==
  CASE key = "groq_70b" -> "Groq Llama 3.3 70B"
    [] key = "groq_8b" -> "Groq Llama 3.1 8B"
    [] key = "lovable" -> "Lovable AI Gateway"

\* providers[key].model
ProviderModel(key) ==
  CASE key = "groq_70b" -> "llama-3.3-70b-versatile"
    [] key = "groq_8b" -> "llama-3.1-8b-instant"
    [] key = "lovable" -> "google/gemini-2.5-flash"

\* the environment variable read by providers[key].apiKey
ApiKeyVariable(key) == IF key = "lovable" THEN "LOVABLE_API_KEY" ELSE "GROQ_API_KEY"

HasKeyAlways(key) == TRUE

\* !!provider.apiKey
HasKey(key) == ApiKeyVariable(key) \in env

\* get availableProviders()
availableProviders == SelectSeq(priorityList, HasKey)

\* get isConfigured()
isConfigured == Len(availableProviders) > 0

\* let priorityOrder = [...config.priorityList], replaced for complexity 'low'
priorityOrder(options) ==
  IF options.complexity = Str("low") THEN <<"groq_8b", "groq_70b", "lovable">>
  ELSE priorityList

\* a text built from pieces (a template string), and the absent text
Text(pieces) == [defined |-> TRUE, text |-> pieces]

NoText == [defined |-> FALSE, text |-> <<>>]

\* the object returned by callAI
AIResult(content, error, provider) ==
  [ok |-> TRUE, content |-> content, error |-> error, provider |-> provider]

\* the outcome of fetch: a response with its status and body, or an exception
Response(status, body) == [kind |-> "response", status |-> status, body |-> body]

Exception(message) == [kind |-> "exception", status |-> 0, body |-> message]

\* a body that is JSON, with data.choices?.[0]?.message?.content, and one
\* that is not
JsonBody(content) == [json |-> TRUE, content |-> content]

TextBody == [json |-> FALSE, content |-> Undefined]

\* response.ok
IsOk(response) == response.status >= 200 /\ response.status <= 299

\* the try block after the fetch has settled: the statuses that are answered
\* with the next provider, and response.json() throwing on a body that is not
\* JSON
Failure(name, response) ==
  IF response.kind = "exception" THEN <<name, ": ", response.body>>
  ELSE IF response.status = 429 THEN <<name, ": Rate limited">>
  ELSE IF response.status = 402 THEN <<name, ": Quota exceeded">>
  ELSE IF response.status >= 500
       THEN <<name, ": Server error ", ToString(response.status)>>
  ELSE IF ~IsOk(response) THEN <<name, ": ", ToString(response.status)>>
  ELSE IF ~response.body.json THEN <<name, ": ", "Unexpected token">>
  ELSE <<>>

\* data.choices?.[0]?.message?.content || ''
ContentOf(body) == IF body.content.defined THEN body.content.str ELSE ""

----------------------------------------------------------------------------
(* Inputs *)

\* the longest study list
MaxStudies == 4

Study(name, e, se, v, sg) ==
  [studyName |-> name, effectSize |-> e, standardError |-> se, variance |-> v,
   subgroup |-> sg]

\* study records (MetaAnalysisStudy): the first two are scenario 1 of the
\* specification; "Diaz" has a zero standard error and "Evans" a zero variance,
\* so that the fallbacks of the engine are taken; "Gray" has neither
StudyPool ==
  { Study("Adams", Rat(1, 2), Rat(1, 10), Rat(1, 100), Undefined),
    Study("Baker", Rat(7, 10), Rat(1, 10), Rat(1, 100), Str("A")),
    Study("Chen", Rat(1, 2), Rat(1, 2), Rat(1, 4), Str("")),
    Study("Diaz", Rat(-1, 2), Num(0), Rat(1, 4), Str("B")),
    Study("Evans", Num(0), Rat(1, 2), Num(0), Str("Overall")),
    Study("Gray", Rat(1, 2), Num(0), Num(0), Undefined) }

\* the lists of at most MaxStudies distinct studies
StudyLists ==
  UNION {{st \in [1..n -> StudyPool] : \A i, j \in 1..n : st[i] = st[j] => i = j} :
           n \in 0..MaxStudies}

\* the requested powers (SampleSizeParams.power), from 0.005 to 0.95
Powers ==
  {Rat(5, 1000), Rat(25, 1000), Rat(50, 1000), Rat(200, 1000), Rat(500, 1000),
   Rat(800, 1000), Rat(900, 1000), Rat(950, 1000)}

\* effect sizes in the range 0.1 to 1.5 of the slider of the sample-size form
EffectSizes == {Rat(1, 5), Rat(1, 2), Rat(4, 5), Rat(3, 2)}

\* SampleSizeParams; "cohort" is a study type the engine does not know
ParamSet ==
  [studyType : StudyTypes \cup {"cohort"},
   effectSize : EffectSizes,
   power : Powers,
   alpha : {Rat(10, 1000), Rat(50, 1000), Rat(100, 1000)},
   ratio : {Missing, Rat(1, 2), Num(1), Num(2)},
   tails : {Missing, Num(1), Num(2)}]

\* the defaults of the sample-size form (SearchPage.tsx)
DefaultParams ==
  [studyType |-> "two_means", effectSize |-> Rat(1, 2), power |-> Rat(800, 1000),
   alpha |-> Rat(50, 1000), ratio |-> Num(1), tails |-> Num(2)]

\* the total sample sizes entered in the power form; 100 is its initial value
SampleNs == {Num(2), Num(4), Num(16), Num(64), Num(100)}

\* the requests of the power form: two-tailed, ratio 1; -0.5 is a negative
\* standardised difference
PowerRequests ==
  [studyType : StudyTypes \cup {"cohort"},
   effectSize : EffectSizes \cup {Rat(-1, 2)},
   power : {Rat(500, 1000), Rat(800, 1000), Rat(900, 1000)},
   alpha : {Rat(10, 1000), Rat(50, 1000), Rat(100, 1000)},
   ratio : {Num(1)},
   tails : {Num(2)}]

\* the request q together with the sample size n given to calculatePower
WithN(q, n) ==
  [n |-> n, studyType |-> q.studyType, effectSize |-> q.effectSize,
   power |-> q.power, alpha |-> q.alpha, ratio |-> q.ratio, tails |-> q.tails]

\* the arguments of calculatePower: an entered sample size, or the closed-form
\* sample size of the request itself where that is a number
PowerParamSet ==
  {WithN(q, n) : q \in PowerRequests, n \in SampleNs}
    \cup {WithN(q, UnroundedSampleSize(q)) :
            q \in {r \in PowerRequests : /\ r.studyType \in StudyTypes
                                        /\ IsFinite(UnroundedSampleSize(r))}}

\* event rates from 0 to 1, as the decimal literals of the call
EventRates ==
  {Num(0), Rat(5, 100), Rat(10, 100), Rat(20, 100), Rat(30, 100), Rat(44, 100),
   Rat(50, 100), Rat(94, 100), Num(1)}

\* the optional sample sizes of calculateNNT
GroupSizes == {Missing, Num(0), Num(50), Num(200)}

NNTArgs ==
  [eventRateControl : EventRates, eventRateTreatment : EventRates,
   n1 : GroupSizes, n2 : GroupSizes]

\* the arguments of calculateEGFR; the cystatin C value is optional
EGFRCase(creatinine, age, sex) ==
  [creatinine |-> creatinine, age |-> Num(age), sex |-> sex]

\* creatinine from 0.5 to 8 mg/dL at the ages 20, 50 and 80, and cases whose
\* eGFR is at or just below a stage threshold
EGFRCases ==
  {EGFRCase(c, a, s) :
     c \in {Rat(5, 10), Rat(9, 10), Num(1), Rat(12, 10), Rat(15, 10), Num(2),
            Num(3), Num(4), Num(8)},
     a \in {20, 50, 80}, s \in {"male", "female"}}
  \cup {
    EGFRCase(Num(1), 53, "male"),
    EGFRCase(Rat(6, 5), 18, "male"),
    EGFRCase(Rat(3, 2), 40, "male"),
    EGFRCase(Num(1), 72, "female"),
    EGFRCase(Rat(9, 5), 51, "male"),
    EGFRCase(Num(2), 31, "male"),
    EGFRCase(Rat(5, 2), 53, "male"),
    EGFRCase(Num(2), 50, "female"),
    EGFRCase(Num(3), 83, "female"),
    EGFRCase(Num(3), 84, "female") }

EGFRArgs ==
  {[creatinine |-> e.creatinine, age |-> e.age, sex |-> e.sex, useCysC |-> u] :
     e \in EGFRCases, u \in {Missing, Rat(12, 10)}}

\* the arguments of calculateCURB65, on both sides of every threshold
CURB65Args ==
  [confusion : BOOLEAN,
   urea : {Num(5), Num(7), Rat(71, 10), Num(19), Num(20)},
   respiratoryRate : {Num(29), Num(30)},
   bloodPressureSystolic : {Num(89), Num(90)},
   bloodPressureDiastolic : {Num(60), Num(61)},
   age : {Num(64), Num(65)},
   isUraBUN : {NoFlag, Flag(FALSE), Flag(TRUE)}]

\* the arguments of calculateCHADSVASc, ages on both sides of 65 and 75
CHADSVAScArgs ==
  [age : {Num(50), Num(64), Num(65), Num(74), Num(75), Num(80)},
   sex : {"male", "female"},
   chf : BOOLEAN, hypertension : BOOLEAN, diabetes : BOOLEAN,
   stroke : BOOLEAN, vascularDisease : BOOLEAN]

\* the nine criteria of the Wells score that add a point
WellsPositive ==
  {"activeCancer", "paralysisParesis", "bedridden3Days", "localizedTenderness",
   "entireLegSwollen", "calfSwelling3cm", "pittingEdema", "collateralVeins",
   "previousDVT"}

\* the arguments of calculateWellsDVT
WellsArgs == [WellsPositive \cup {"alternativeDiagnosisLikely"} -> BOOLEAN]

\* vital signs that score 0
NormalVitals ==
  [temperature |-> Num(37), meanArterialPressure |-> Num(90),
   heartRate |-> Num(80), respiratoryRate |-> Num(16)]

\* vital signs: each one over the bounds of its if-chain with the others
\* normal, and every combination of a normal and a highest-scoring value
ApacheVitals ==
  {[NormalVitals EXCEPT !.temperature = t] :
     t \in {Num(41), Num(39), Rat(77, 2), Num(36), Num(34), Num(32), Num(30), Num(29)}}
  \cup {[NormalVitals EXCEPT !.meanArterialPressure = m] :
          m \in {Num(160), Num(130), Num(110), Num(70), Num(50), Num(49)}}
  \cup {[NormalVitals EXCEPT !.heartRate = h] :
          h \in {Num(180), Num(140), Num(110), Num(70), Num(55), Num(40), Num(39)}}
  \cup {[NormalVitals EXCEPT !.respiratoryRate = r] :
          r \in {Num(50), Num(35), Num(25), Num(12), Num(10), Num(6), Num(5)}}
  \cup [temperature : {Num(37), Num(41)}, meanArterialPressure : {Num(90), Num(49)},
        heartRate : {Num(80), Num(180)}, respiratoryRate : {Num(16), Num(5)}]

\* the inputs the body of calculateAPACHEII_APS never reads: normal values
NormalLabs ==
  [oxygenation |-> Num(80), fio2High |-> FALSE, arterialPH |-> Rat(37, 5),
   sodium |-> Num(140), potassium |-> Num(4), creatinine |-> Num(1),
   acuteRenalFailure |-> FALSE, hematocrit |-> Num(40), wbc |-> Num(8)]

\* the same inputs, deranged
DerangedLabs ==
  [oxygenation |-> Num(500), fio2High |-> TRUE, arterialPH |-> Rat(71, 10),
   sodium |-> Num(180), potassium |-> Num(7), creatinine |-> Num(4),
   acuteRenalFailure |-> TRUE, hematocrit |-> Num(60), wbc |-> Num(40)]

\* the other arguments: every Glasgow Coma Scale value, ages on both sides of
\* every bound, every chronic health class
ApacheRest ==
  [gcs : {Num(g) : g \in 3..15},
   age : {Num(44), Num(45), Num(55), Num(65), Num(75)},
   chronicHealth : {"none", "elective", "emergency"}]

\* the arguments of calculateAPACHEII_APS
ApacheArgs ==
  {[vitals |-> v, labs |-> l, rest |-> r] :
     v \in ApacheVitals, l \in {NormalLabs, DerangedLabs}, r \in ApacheRest}

\* the arguments of calculateProportionCI: every count of successes out of
\* the totals, at the default level and at 0.95, and some out of 28 at 0.99
ProportionArgs ==
  {[successes |-> Num(s), total |-> Num(t), confidenceLevel |-> c] :
     s \in 0..15, t \in {1, 2, 3, 4, 5, 6, 7, 8, 9, 11, 13, 14, 15},
     c \in {Missing, Rat(95, 100)}}
  \cup {[successes |-> Num(s), total |-> Num(28), confidenceLevel |-> Rat(99, 100)] :
          s \in {0, 1, 2, 3, 4, 5, 6, 7, 8, 10, 12, 14, 18, 21, 22, 26, 28}}

\* the arguments of calculateDiagnosticTest: small counts, with empty rows,
\* empty columns and the empty table, and one table with 9999 true negatives
DiagnosticArgs ==
  [truePositive : {Num(0), Num(1), Num(2), Num(5)},
   falsePositive : {Num(0), Num(1), Num(2), Num(5)},
   falseNegative : {Num(0), Num(1), Num(2), Num(5)},
   trueNegative : {Num(0), Num(1), Num(2), Num(5)}]
  \cup {[truePositive |-> Num(1), falsePositive |-> Num(1),
         falseNegative |-> Num(1), trueNegative |-> Num(9999)]}

\* study records that carry a standard error and a variance that is not its
\* square: MetaAnalysisStudy has both fields and the engine checks neither
MixedPool ==
  StudyPool \cup
    { Study("Hill", Rat(1, 2), Rat(1, 2), Rat(1, 100), Undefined),
      Study("Iyer", Rat(7, 10), Rat(1, 10), Rat(1, 4), Undefined) }

\* the lists of at most two distinct records of MixedPool
MixedLists ==
  UNION {{st \in [1..n -> MixedPool] : \A i, j \in 1..n : st[i] = st[j] => i = j} :
           n \in 0..2}

\* the longest argument list of addArticles and removeArticles
MaxArgs == 2

\* articles (Article): two records share the id "a1"
Article(id, title) == [id |-> id, title |-> title]

ArticlePool ==
  {Article("a1", "Trial"), Article("a1", "Trial (preprint)"), Article("a2", "Cohort")}

ArticleLists == UNION {[1..n -> ArticlePool] : n \in 0..MaxArgs}

IdLists == UNION {[1..n -> {"a1", "a2"}] : n \in 0..MaxArgs}

\* the options of callAI that the function reads
AIOptions ==
  [complexity : {Undefined, Str("high"), Str("low")},
   model : {Undefined, Str("custom-model")}]

\* the outcomes of a fetch
Outcomes ==
  {Response(200, JsonBody(Str("answer"))), Response(200, JsonBody(Undefined)),
   Response(200, TextBody), Response(429, TextBody), Response(402, TextBody),
   Response(503, TextBody), Response(404, TextBody), Exception("network error")}

\* the environment variables of the AI providers
ApiKeyVariables == {"GROQ_API_KEY", "LOVABLE_API_KEY"}

\* no call has returned yet
NoResult == [ok |-> FALSE, pending |-> TRUE]

----------------------------------------------------------------------------
(* The engine as a state machine: the arguments of a call are fixed by the *)
(* initial state, every action is one call of an exported function.        *)

CallCalculateMetaAnalysis ==
  /\ call' = "calculateMetaAnalysis"
  /\ ret' = calculateMetaAnalysis(studies)
  /\ UNCHANGED <<studies, params, storeVars, aiVars>>

CallLeaveOneOutAnalysis ==
  /\ call' = "leaveOneOutAnalysis"
  /\ ret' = leaveOneOutAnalysis(studies)
  /\ UNCHANGED <<studies, params, storeVars, aiVars>>

CallSubgroupAnalysis ==
  /\ call' = "subgroupAnalysis"
  /\ ret' = subgroupAnalysis(studies)
  /\ UNCHANGED <<studies, params, storeVars, aiVars>>

CallCalculateSampleSize ==
  /\ call' = "calculateSampleSize"
  /\ ret' = calculateSampleSize(params)
  /\ UNCHANGED <<studies, params, storeVars, aiVars>>

\* the meta-analysis engine
Init ==
  /\ studies \in StudyLists
  /\ params = DefaultParams
  /\ call = "none"
  /\ ret = NoResult
  /\ EmptySelection
  /\ NotCalled({})

Next ==
  \/ CallCalculateMetaAnalysis
  \/ CallLeaveOneOutAnalysis
  \/ CallSubgroupAnalysis

Spec == Init /\ [][Next]_vars

\* the meta-analysis engine on records with both dispersions
InitMixed ==
  /\ studies \in MixedLists
  /\ params = DefaultParams
  /\ call = "none"
  /\ ret = NoResult
  /\ EmptySelection
  /\ NotCalled({})

NextMixed == CallCalculateMetaAnalysis

SpecMixed == InitMixed /\ [][NextMixed]_vars

\* the sample-size module
InitSampleSize ==
  /\ studies = <<>>
  /\ params \in ParamSet
  /\ call = "none"
  /\ ret = NoResult
  /\ EmptySelection
  /\ NotCalled({})

NextSampleSize == CallCalculateSampleSize

SpecSampleSize == InitSampleSize /\ [][NextSampleSize]_vars

CallCalculatePower ==
  /\ call' = "calculatePower"
  /\ ret' = calculatePower(params.n, params.effectSize, params.alpha, params.studyType)
  /\ UNCHANGED <<studies, params, storeVars, aiVars>>

\* the sample-size and power module
InitPower ==
  /\ studies = <<>>
  /\ params \in PowerParamSet
  /\ call = "none"
  /\ ret = NoResult
  /\ EmptySelection
  /\ NotCalled({})

NextPower ==
  \/ CallCalculateSampleSize
  \/ CallCalculatePower

SpecPower == InitPower /\ [][NextPower]_vars

CallCalculateNNT ==
  /\ call' = "calculateNNT"
  /\ ret' = calculateNNT(DoubleOf(params.eventRateControl),
                         DoubleOf(params.eventRateTreatment), params.n1, params.n2)
  /\ UNCHANGED <<studies, params, storeVars, aiVars>>

\* the NNT calculator
InitNNT ==
  /\ studies = <<>>
  /\ params \in NNTArgs
  /\ call = "none"
  /\ ret = NoResult
  /\ EmptySelection
  /\ NotCalled({})

NextNNT == CallCalculateNNT

SpecNNT == InitNNT /\ [][NextNNT]_vars

CallCalculateEGFR ==
  /\ call' = "calculateEGFR"
  /\ ret' = calculateEGFR(params.creatinine, params.age, params.sex, params.useCysC)
  /\ UNCHANGED <<studies, params, storeVars, aiVars>>

\* the eGFR calculator
InitEGFR ==
  /\ studies = <<>>
  /\ params \in EGFRArgs
  /\ call = "none"
  /\ ret = NoResult
  /\ EmptySelection
  /\ NotCalled({})

NextEGFR == CallCalculateEGFR

SpecEGFR == InitEGFR /\ [][NextEGFR]_vars

CallCalculateCURB65 ==
  /\ call' = "calculateCURB65"
  /\ ret' = calculateCURB65(params.confusion, params.urea, params.respiratoryRate,
                            params.bloodPressureSystolic,
                            params.bloodPressureDiastolic, params.age,
                            params.isUraBUN)
  /\ UNCHANGED <<studies, params, storeVars, aiVars>>

\* the CURB-65 calculator
InitCURB65 ==
  /\ studies = <<>>
  /\ params \in CURB65Args
  /\ call = "none"
  /\ ret = NoResult
  /\ EmptySelection
  /\ NotCalled({})

NextCURB65 == CallCalculateCURB65

SpecCURB65 == InitCURB65 /\ [][NextCURB65]_vars

CallCalculateCHADSVASc ==
  /\ call' = "calculateCHADSVASc"
  /\ ret' = calculateCHADSVASc(params.age, params.sex, params.chf,
                               params.hypertension, params.diabetes,
                               params.stroke, params.vascularDisease)
  /\ UNCHANGED <<studies, params, storeVars, aiVars>>

\* the CHA2DS2-VASc calculator
InitCHADSVASc ==
  /\ studies = <<>>
  /\ params \in CHADSVAScArgs
  /\ call = "none"
  /\ ret = NoResult
  /\ EmptySelection
  /\ NotCalled({})

NextCHADSVASc == CallCalculateCHADSVASc

SpecCHADSVASc == InitCHADSVASc /\ [][NextCHADSVASc]_vars

CallCalculateWellsDVT ==
  /\ call' = "calculateWellsDVT"
  /\ ret' = calculateWellsDVT(params.activeCancer, params.paralysisParesis,
                              params.bedridden3Days, params.localizedTenderness,
                              params.entireLegSwollen, params.calfSwelling3cm,
                              params.pittingEdema, params.collateralVeins,
                              params.previousDVT, params.alternativeDiagnosisLikely)
  /\ UNCHANGED <<studies, params, storeVars, aiVars>>

\* the Wells DVT calculator
InitWellsDVT ==
  /\ studies = <<>>
  /\ params \in WellsArgs
  /\ call = "none"
  /\ ret = NoResult
  /\ EmptySelection
  /\ NotCalled({})

NextWellsDVT == CallCalculateWellsDVT

SpecWellsDVT == InitWellsDVT /\ [][NextWellsDVT]_vars

\* calculateAPACHEII_APS on the arguments p, its unread inputs taken from labs
ApacheCall(p, labs) ==
  calculateAPACHEII_APS(p.vitals.temperature, p.vitals.meanArterialPressure,
                        p.vitals.heartRate, p.vitals.respiratoryRate,
                        labs.oxygenation, labs.fio2High, labs.arterialPH,
                        labs.sodium, labs.potassium, labs.creatinine,
                        labs.acuteRenalFailure, labs.hematocrit, labs.wbc,
                        p.rest.gcs, p.rest.age, p.rest.chronicHealth)

CallCalculateAPACHEII_APS ==
  /\ call' = "calculateAPACHEII_APS"
  /\ ret' = ApacheCall(params, params.labs)
  /\ UNCHANGED <<studies, params, storeVars, aiVars>>

\* the APACHE II calculator
InitAPACHEII ==
  /\ studies = <<>>
  /\ params \in ApacheArgs
  /\ call = "none"
  /\ ret = NoResult
  /\ EmptySelection
  /\ NotCalled({})

NextAPACHEII == CallCalculateAPACHEII_APS

SpecAPACHEII == InitAPACHEII /\ [][NextAPACHEII]_vars

CallCalculateProportionCI ==
  /\ call' = "calculateProportionCI"
  /\ ret' = calculateProportionCI(params.successes, params.total, params.confidenceLevel)
  /\ UNCHANGED <<studies, params, storeVars, aiVars>>

\* the proportion interval calculator, on counts with 0 <= successes <= total
InitProportionCI ==
  /\ studies = <<>>
  /\ params \in {p \in ProportionArgs : p.successes.n <= p.total.n}
  /\ call = "none"
  /\ ret = NoResult
  /\ EmptySelection
  /\ NotCalled({})

NextProportionCI == CallCalculateProportionCI

SpecProportionCI == InitProportionCI /\ [][NextProportionCI]_vars

CallCalculateDiagnosticTest ==
  /\ call' = "calculateDiagnosticTest"
  /\ ret' = calculateDiagnosticTest(params.truePositive, params.falsePositive,
                                    params.falseNegative, params.trueNegative)
  /\ UNCHANGED <<studies, params, storeVars, aiVars>>

\* the diagnostic test calculator
InitDiagnosticTest ==
  /\ studies = <<>>
  /\ params \in DiagnosticArgs
  /\ call = "none"
  /\ ret = NoResult
  /\ EmptySelection
  /\ NotCalled({})

NextDiagnosticTest == CallCalculateDiagnosticTest

SpecDiagnosticTest == InitDiagnosticTest /\ [][NextDiagnosticTest]_vars

\* setSelectedArticles(updater): React queues the updater and applies the
\* queue in order at the next render, so the queue is kept as its result
addArticles(articles) ==
  /\ nextArticles' = AddUpdater(nextArticles, articles)
  /\ UNCHANGED <<selectedArticles, sessionStorage, callVars, aiVars>>

removeArticles(articleIds) ==
  /\ nextArticles' = RemoveUpdater(nextArticles, articleIds)
  /\ UNCHANGED <<selectedArticles, sessionStorage, callVars, aiVars>>

clearArticles ==
  /\ nextArticles' = <<>>
  /\ UNCHANGED <<selectedArticles, sessionStorage, callVars, aiVars>>

toggleSelection(article) ==
  IF isSelected(article.id) THEN removeArticles(<<article.id>>)
  ELSE addArticles(<<article>>)

\* the next render and its effect: sessionStorage.setItem(STORAGE_KEY, ...)
Render ==
  /\ selectedArticles' = nextArticles
  /\ sessionStorage' = nextArticles
  /\ UNCHANGED <<nextArticles, callVars, aiVars>>

\* the selected-articles store
InitStore ==
  /\ studies = <<>>
  /\ params = DefaultParams
  /\ call = "none"
  /\ ret = NoResult
  /\ EmptySelection
  /\ NotCalled({})

NextStore ==
  \/ \E articles \in ArticleLists : addArticles(articles)
  \/ \E articleIds \in IdLists : removeArticles(articleIds)
  \/ clearArticles
  \/ \E article \in ArticlePool : toggleSelection(article)
  \/ Render

SpecStore == InitStore /\ [][NextStore]_vars

\* callAI up to the loop over the providers
callAI(options) ==
  /\ pc = "idle"
  /\ call' = "callAI"
  /\ params' = options
  /\ IF ~isConfigured
     THEN /\ ret' = AIResult("", Text(<<"No AI provider configured. Please add GROQ_API_KEY or LOVABLE_API_KEY.">>), NoText)
          /\ pc' = "returned"
          /\ cursor' = cursor
     ELSE /\ ret' = ret
          /\ pc' = "loop"
          /\ cursor' = 1
  /\ errors' = <<>>
  /\ UNCHANGED <<studies, env, requests, responses, storeVars>>

\* if (!provider.apiKey) continue
SkipProvider ==
  /\ pc = "loop"
  /\ cursor <= Len(priorityOrder(params))
  /\ ~HasKey(priorityOrder(params)[cursor])
  /\ cursor' = cursor + 1
  /\ UNCHANGED <<callVars, env, pc, errors, requests, responses, storeVars>>

\* await fetch(provider.baseUrl, ...): the request is sent
Fetch ==
  /\ pc = "loop"
  /\ cursor <= Len(priorityOrder(params))
  /\ HasKey(priorityOrder(params)[cursor])
  /\ requests' = Append(requests,
                        [provider |-> priorityOrder(params)[cursor],
                         model |-> IF params.model.defined THEN params.model.str
                                   ELSE ProviderModel(priorityOrder(params)[cursor])])
  /\ pc' = "fetch"
  /\ UNCHANGED <<callVars, env, cursor, errors, responses, storeVars>>

\* the fetch settles and the rest of the try block, or the catch block, runs
Receive(response) ==
  /\ pc = "fetch"
  /\ responses' = Append(responses, response)
  /\ LET name == ProviderName(priorityOrder(params)[cursor])
     IN IF Failure(name, response) # <<>>
        THEN /\ errors' = Append(errors, Failure(name, response))
             /\ cursor' = cursor + 1
             /\ pc' = "loop"
             /\ ret' = ret
        ELSE /\ ret' = AIResult(ContentOf(response.body), NoText, Text(<<name>>))
             /\ pc' = "returned"
             /\ UNCHANGED <<errors, cursor>>
  /\ UNCHANGED <<studies, params, call, env, requests, storeVars>>

\* the loop is over: return { content: '', error: `All AI providers failed: ...` }
AllFailed ==
  /\ pc = "loop"
  /\ cursor > Len(priorityOrder(params))
  /\ ret' = AIResult("", Text(<<"All AI providers failed: ", errors>>), NoText)
  /\ pc' = "returned"
  /\ UNCHANGED <<studies, params, call, env, cursor, errors, requests, responses, storeVars>>

\* one call of callAI, for each set of configured keys
InitAI ==
  /\ studies = <<>>
  /\ params = DefaultParams
  /\ call = "none"
  /\ ret = NoResult
  /\ EmptySelection
  /\ \E e \in SUBSET ApiKeyVariables : NotCalled(e)

NextAI ==
  \/ \E options \in AIOptions : callAI(options)
  \/ SkipProvider
  \/ Fetch
  \/ \E response \in Outcomes : Receive(response)
  \/ AllFailed

SpecAI == InitAI /\ [][NextAI]_vars

\* the steps of callAI itself are continuations that the event loop runs; a
\* fetch need not settle
FairSpecAI == SpecAI /\ WF_vars(SkipProvider \/ Fetch \/ AllFailed)

----------------------------------------------------------------------------
(* Claims *)

\* a <= b on numbers
Le(x, y) == Lt(x, y) \/ Eq(x, y)

\* the number is an integer
IsInteger(x) == x.k = "num" /\ x.d = 1

NoStudiesError == [ok |-> FALSE, error |-> "No studies provided"]

\* the study has a finite positive variance
HasPositiveVariance(s) == IsFinite(s.variance) /\ Sign(s.variance) > 0

ValidStudies(st) == Len(st) >= 1 /\ \A i \in 1..Len(st) : HasPositiveVariance(st[i])

\* C1: calculateMetaAnalysis called with an empty study list fails with the
\* error 'No studies provided' and returns no result object.
C1_EmptyListFails ==
  (call = "calculateMetaAnalysis" /\ Len(studies) = 0)
    => (ret = NoStudiesError /\ "pooledEffect" \notin DOMAIN ret)

C1_Witness == call = "calculateMetaAnalysis" /\ studies = <<>> /\ ~ret.ok

\* C2: for every non-empty study list with finite positive variances the
\* per-study weights are 1/(variance_i + tauSquared), normalised so that
\* they sum to 100.
C2_WeightsNormalised ==
  (call = "calculateMetaAnalysis" /\ ValidStudies(studies))
    => /\ ret.ok
       /\ LET n == Len(studies)
              rw == [i \in 1..n |->
                       Div(Num(1), Add(studies[i].variance, ret.tauSquared))]
          IN /\ \A i \in 1..n :
                  Eq(ret.studies[i].weight, Mul(Div(rw[i], SumSeq(rw)), Num(100)))
             /\ Eq(SumSeq([i \in 1..n |-> ret.studies[i].weight]), Num(100))

\* C3: for every non-empty study list with finite positive variances,
\* a one-study list included, tauSquared >= 0 and 0 <= iSquared <= 100.
C3_TauAndISquaredInRange ==
  (call = "calculateMetaAnalysis" /\ ValidStudies(studies))
    => /\ ret.ok
       /\ Le(Num(0), ret.tauSquared)
       /\ Le(Num(0), ret.iSquared)
       /\ Le(ret.iSquared, Num(100))

\* C4: for every non-empty valid study list lowerCI <= pooledEffect <= upperCI,
\* with lowerCI and upperCI equal to pooledEffect -/+ 1.96 * pooledSE.
C4_IntervalOrdered ==
  (call = "calculateMetaAnalysis" /\ ValidStudies(studies))
    => /\ ret.ok
       /\ Le(ret.lowerCI, ret.pooledEffect)
       /\ Le(ret.pooledEffect, ret.upperCI)
       /\ Eq(ret.lowerCI, Sub(ret.pooledEffect, Mul(Rat(196, 100), ret.pooledSE)))
       /\ Eq(ret.upperCI, Add(ret.pooledEffect, Mul(Rat(196, 100), ret.pooledSE)))

\* scenario 1: two studies, effect sizes 0.5 and 0.7, standard errors both 0.1
Scenario1 ==
  /\ Len(studies) = 2
  /\ {studies[1].effectSize, studies[2].effectSize} = {Rat(5, 10), Rat(7, 10)}
  /\ \A i \in 1..2 : /\ studies[i].standardError = Rat(1, 10)
                     /\ studies[i].variance = Rat(1, 100)

\* C5 as stated: in scenario 1 the pooled effect is strictly between 0.5 and
\* 0.7, I-squared is approximately 0 or low (at most 25, the conventional
\* limit of low heterogeneity) and pValue < 0.05.
C5_HomogeneousScenario ==
  (call = "calculateMetaAnalysis" /\ Scenario1)
    => /\ ret.ok
       /\ Lt(Rat(5, 10), ret.pooledEffect) /\ Lt(ret.pooledEffect, Rat(7, 10))
       /\ Le(ret.iSquared, Num(25))
       /\ Lt(ret.pValue, Rat(5, 100))

\* C5 as amended: in scenario 1 the pooled effect is 0.6, strictly between
\* 0.5 and 0.7, pValue < 0.05, and I-squared is 50 (Q = 2 on one degree of
\* freedom, tauSquared = 0.01).
C5_ModerateHeterogeneity ==
  (call = "calculateMetaAnalysis" /\ Scenario1)
    => /\ ret.ok
       /\ Lt(Rat(5, 10), ret.pooledEffect) /\ Lt(ret.pooledEffect, Rat(7, 10))
       /\ Eq(ret.pooledEffect, Rat(6, 10))
       /\ Eq(ret.qStatistic, Num(2))
       /\ Eq(ret.iSquared, Num(50))
       /\ Eq(ret.tauSquared, Rat(1, 100))
       /\ Lt(ret.pValue, Rat(5, 100))

C5_Witness == call = "calculateMetaAnalysis" /\ Scenario1 /\ ret.ok

\* the list st with only its i-th study removed, order preserved
Without(st, i) == SubSeq(st, 1, i - 1) \o SubSeq(st, i + 1, Len(st))

\* the n results of a leave-one-out analysis, in input order
LeaveOneOutResults ==
  /\ ret.ok
  /\ Len(ret.value) = Len(studies)
  /\ \A i \in 1..Len(studies) :
       /\ ret.value[i].ok
       /\ ret.value[i] = calculateMetaAnalysis(Without(studies, i))

\* C6 as stated: for a list of n studies leaveOneOutAnalysis returns exactly
\* n results in input order, the i-th being calculateMetaAnalysis of the
\* list without its i-th study.
C6_OneResultPerStudy == call = "leaveOneOutAnalysis" => LeaveOneOutResults

\* C6 as amended: the same for every n other than 1; for a one-study list
\* leaveOneOutAnalysis returns no results and fails with 'No studies provided'.
C6_OneResultPerStudyUnlessSingle ==
  call = "leaveOneOutAnalysis"
    => IF Len(studies) = 1 THEN ret = NoStudiesError ELSE LeaveOneOutResults

C6_Witness ==
  /\ call = "leaveOneOutAnalysis"
  /\ Len(studies) = MaxStudies
  /\ ret.ok
  /\ Len(ret.value) = MaxStudies

Label(s) ==
  IF s.subgroup = Undefined \/ s.subgroup = Str("") THEN "Overall" ELSE s.subgroup.str

\* C8: subgroupAnalysis returns exactly one entry per label that occurs, and
\* the entry of a label is calculateMetaAnalysis of the studies with that
\* label, in input order.
C8_SubgroupsPartition ==
  call = "subgroupAnalysis"
    => /\ ret.ok
       /\ DOMAIN ret.value = {Label(studies[i]) : i \in 1..Len(studies)}
       /\ Len(ret.keys) = Cardinality(DOMAIN ret.value)
       /\ {ret.keys[i] : i \in 1..Len(ret.keys)} = DOMAIN ret.value
       /\ \A g \in DOMAIN ret.value :
            ret.value[g] =
              calculateMetaAnalysis(SelectSeq(studies, LAMBDA s : Label(s) = g))

C8_Witness ==
  /\ call = "subgroupAnalysis"
  /\ ret.ok
  /\ \E i, j, k \in 1..Len(studies) :
       /\ studies[i].subgroup = Undefined
       /\ studies[j].subgroup = Str("")
       /\ studies[k].subgroup = Str("Overall")
  /\ Cardinality(DOMAIN ret.value) = 2
  /\ Len(ret.value["Overall"].studies) = 3

\* the request satisfies the stated domain of calculateSampleSize
ValidRequest(p) ==
  /\ p.studyType \in StudyTypes
  /\ Lt(Num(0), p.power) /\ Lt(p.power, Num(1))
  /\ Lt(Num(0), p.alpha) /\ Lt(p.alpha, Num(1))
  /\ p.ratio = Missing \/ Lt(Num(0), p.ratio)
  /\ p.tails \in {Missing, Num(1), Num(2)}

\* C9: for every request with a known studyType, power and alpha in (0,1),
\* ratio > 0 and tails 1 or 2, calculateSampleSize returns an integer that is
\* at least 1.
C9_IntegerAtLeastOne ==
  (call = "calculateSampleSize" /\ ValidRequest(params))
    => /\ ret.ok
       /\ IsInteger(ret.value)
       /\ Le(Num(1), ret.value)

\* scenario 2: two_means, effectSize 0.5, power 0.8, alpha 0.05, ratio 1, tails 2
Scenario2 ==
  params = [studyType |-> "two_means", effectSize |-> Rat(5, 10),
            power |-> Rat(8, 10), alpha |-> Rat(5, 100),
            ratio |-> Num(1), tails |-> Num(2)]

\* C10 as stated: in scenario 2 calculateSampleSize returns a total n of 64,
\* that is 32 per group.
C10_TotalSixtyFour ==
  (call = "calculateSampleSize" /\ Scenario2)
    => /\ ret = [ok |-> TRUE, value |-> Num(64)]
       /\ Eq(Div(ret.value, Num(2)), Num(32))

\* C10 as amended: in scenario 2 calculateSampleSize returns a total n of
\* 126, that is 63 per group.
C10_TotalOneHundredTwentySix ==
  (call = "calculateSampleSize" /\ Scenario2)
    => /\ ret = [ok |-> TRUE, value |-> Num(126)]
       /\ Eq(Div(ret.value, Num(2)), Num(63))

C10_Witness == call = "calculateSampleSize" /\ Scenario2 /\ ret.ok

\* the sample size returned for the request p with its power replaced by pw
SampleSizeAtPower(p, pw) == calculateSampleSize([p EXCEPT !.power = pw])

\* C11: with studyType, effectSize, alpha, ratio and tails held fixed,
\* calculateSampleSize is non-decreasing in power over the whole of (0,1):
\* a larger requested power never gets a smaller (finite) sample size.
C11_NonDecreasingInPower ==
  (call = "calculateSampleSize" /\ ValidRequest(params) /\ IsFinite(ret.value))
    => \A pw \in Powers :
         (Le(params.power, pw) /\ IsFinite(SampleSizeAtPower(params, pw).value))
           => Le(ret.value, SampleSizeAtPower(params, pw).value)
\* the sample size returned for the request p with its effect size replaced by e
SampleSizeAtEffect(p, e) == calculateSampleSize([p EXCEPT !.effectSize = e])

\* C12: with studyType, power, alpha, ratio and tails held fixed,
\* calculateSampleSize is non-increasing in effectSize: a larger effect size
\* never gets a larger sample size, for every pair of effect sizes for which
\* the function returns.
C12_NonIncreasingInEffectSize ==
  (call = "calculateSampleSize" /\ ValidRequest(params) /\ ret.ok)
    => \A e \in EffectSizes :
         Le(params.effectSize, e)
           => Le(SampleSizeAtEffect(params, e).value, ret.value)
\* the power returned for the arguments of p with the sample size n
PowerAtN(p, n) == calculatePower(n, p.effectSize, p.alpha, p.studyType)

\* a <= x <= b
Between(a, x, b) == Le(a, x) /\ Le(x, b)

\* C13: with effectSize, alpha and studyType held fixed, calculatePower is
\* non-decreasing in n, and every returned value is a probability in [0,1]
\* (stated for the five study types, positive effect sizes and whole sample
\* sizes).
C13_PowerNonDecreasingInN ==
  (call = "calculatePower" /\ params.studyType \in StudyTypes
     /\ Lt(Num(0), params.effectSize) /\ params.n \in SampleNs)
    => /\ ret.ok
       /\ Between(Num(0), ret.value, Num(1))
       /\ \A n \in SampleNs :
            Le(params.n, n) => Le(ret.value, PowerAtN(params, n).value)

\* the magnitude of the rounding of the modelled square root and tables
Tolerance == Rat(1, 100)

\* x and y differ by at most tol
Near(x, y, tol) == Le(Abs(Sub(x, y)), tol)

\* the sample size given to calculatePower is the closed-form sample size of
\* the request, for one of the five study types and a positive effect size
AtClosedForm ==
  /\ params.studyType \in StudyTypes
  /\ Lt(Num(0), params.effectSize)
  /\ IsFinite(params.n)
  /\ params.n = UnroundedSampleSize(params)

\* C14: calculatePower is the inverse of calculateSampleSize for each of the
\* five study types (two-tailed, ratio 1): at the unrounded closed-form
\* sample size of a requested power the noncentrality parameter equals
\* zAlpha + zBeta and the returned power is the requested power.
C14_PowerInvertsSampleSize ==
  (call = "calculatePower" /\ AtClosedForm)
    => /\ Near(Lambda(params.n, params.effectSize, params.studyType),
               Add(ZAlpha(params.alpha, params.tails), normalInv(params.power)),
               Mul(Num(2), Tolerance))
       /\ ret.ok
       /\ Near(ret.value, params.power, Tolerance)

\* C15: an unknown study type is always surfaced as an error: both
\* calculateSampleSize and calculatePower fail when studyType is not one of
\* the five study types, instead of returning a number.
C15_UnknownStudyTypeFails ==
  (call \in {"calculateSampleSize", "calculatePower"}
     /\ params.studyType \notin StudyTypes)
    => ret = [ok |-> FALSE, error |-> "Unknown study type"]
\* x < y on doubles with finite values: the roundings order equal exact values
LtDouble(x, y) == Lt(x.v, y.v) \/ (x.v = y.v /\ Lt(x.off, y.off))

\* the double of the integer-valued number n
Whole(n) == [v |-> n, off |-> Num(0)]

\* n is Math.ceil of the double x: an integer with n - 1 < x <= n
IsCeilOf(n, x) ==
  /\ IsInteger(n)
  /\ ~LtDouble(Whole(n), x)
  /\ LtDouble(Whole(Sub(n, Num(1))), x)

\* scenario 3: calculateNNT(0.30, 0.20)
Scenario3 ==
  params = [eventRateControl |-> Rat(30, 100), eventRateTreatment |-> Rat(20, 100),
            n1 |-> Missing, n2 |-> Missing]

\* C17: calculateNNT computes arr = controlRate - treatmentRate and
\* nnt = |1/arr| (each up to the rounding of a double); when arr = 0 it
\* returns nnt = Infinity and 'No difference between groups'; otherwise the
\* interpretation reports ceil(nnt) as NNT when arr > 0 and as NNH when
\* arr < 0; and calculateNNT(0.30, 0.20) yields arr 0.10, nnt 10 and
\* 'Treat 10 patients to prevent 1 event'.
C17_NNTInterpretation ==
  call = "calculateNNT"
    => LET arr == Sub(params.eventRateControl, params.eventRateTreatment)
           text == ret.interpretation
       IN /\ ret.ok
          /\ ret.arr.v = arr
          /\ IF arr = Num(0)
             THEN /\ ret.nnt = Whole(Inf(1))
                  /\ text = <<"No difference between groups">>
             ELSE /\ ret.nnt.v = Abs(Div(Num(1), arr))
                  /\ Len(text) = 5
                  /\ IsCeilOf(text[2], ret.nnt) /\ text[4] = text[2]
                  /\ IF Sign(arr) > 0
                     THEN /\ text[1] = "NNT = " /\ text[3] = ": Treat "
                          /\ text[5] = " patients to prevent 1 event"
                     ELSE /\ text[1] = "NNH = " /\ text[3] = ": Treating "
                          /\ text[5] = " patients causes 1 additional event"
          /\ Scenario3
               => /\ ret.arr.v = Rat(10, 100)
                  /\ ret.nnt.v = Num(10)
                  /\ SubSeq(text, 3, 5) =
                       <<": Treat ", Num(10), " patients to prevent 1 event">>
\* C18: calculateEGFR assigns exactly one CKD stage from the eGFR rounded to
\* one decimal, with the thresholds 90/60/45/30/15: G1 iff >= 90, G2 iff in
\* [60,90), G3a iff in [45,60), G3b iff in [30,45), G4 iff in [15,30), G5 iff
\* < 15; and the interpretation agrees with the stage (normal or mild for
\* G1-G2, moderate for G3a-G3b, severe for G4-G5).
C18_StageFromThresholds ==
  call = "calculateEGFR"
    => LET e == ret.eGFR
           stage == ret.ckdStage
           tier == ret.interpretation
       IN /\ ret.ok
          /\ IsInteger(Mul(e, Num(10)))
          /\ stage = "G1 (Normal or high)" <=> Le(Num(90), e)
          /\ stage = "G2 (Mildly decreased)" <=> Le(Num(60), e) /\ Lt(e, Num(90))
          /\ stage = "G3a (Mildly to moderately decreased)"
               <=> Le(Num(45), e) /\ Lt(e, Num(60))
          /\ stage = "G3b (Moderately to severely decreased)"
               <=> Le(Num(30), e) /\ Lt(e, Num(45))
          /\ stage = "G4 (Severely decreased)" <=> Le(Num(15), e) /\ Lt(e, Num(30))
          /\ stage = "G5 (Kidney failure)" <=> Lt(e, Num(15))
          /\ tier = "Normal or mildly reduced kidney function"
               <=> stage \in {"G1 (Normal or high)", "G2 (Mildly decreased)"}
          /\ tier = "Moderate CKD - Consider nephrology referral"
               <=> stage \in {"G3a (Mildly to moderately decreased)",
                              "G3b (Moderately to severely decreased)"}
          /\ tier = "Severe CKD - Nephrology referral recommended"
               <=> stage \in {"G4 (Severely decreased)", "G5 (Kidney failure)"}

C18_Witness ==
  /\ call = "calculateEGFR"
  /\ ret.eGFR = Num(90)
  /\ ret.ckdStage = "G1 (Normal or high)"

\* scenario 4: calculateEGFR(1.0, 50, 'male')
Scenario4 ==
  /\ params.creatinine = Num(1)
  /\ params.age = Num(50)
  /\ params.sex = "male"

\* C19 as stated: calculateEGFR(1.0, 50, 'male') returns an eGFR in the G2
\* range (60 to 89) and the stage G2.
C19_ScenarioInG2 ==
  (call = "calculateEGFR" /\ Scenario4)
    => /\ Le(Num(60), ret.eGFR) /\ Lt(ret.eGFR, Num(90))
       /\ ret.ckdStage = "G2 (Mildly decreased)"

\* C19 as amended: calculateEGFR(1.0, 50, 'male') returns the eGFR 91.7,
\* which is in the G1 range (90 and above), and the stage G1.
C19_ScenarioInG1 ==
  (call = "calculateEGFR" /\ Scenario4)
    => /\ ret.eGFR = Rat(917, 10)
       /\ Le(Num(90), ret.eGFR)
       /\ ret.ckdStage = "G1 (Normal or high)"

C19_Witness == call = "calculateEGFR" /\ Scenario4 /\ ret.ok
\* the criteria of CURB-65 that the arguments p satisfy
SatisfiedCriteria(p) ==
  LET threshold == IF p.isUraBUN = Flag(TRUE) THEN Num(19) ELSE Num(7)
      holds == [confusion |-> p.confusion,
                urea |-> Lt(threshold, p.urea),
                respiratoryRate |-> Le(Num(30), p.respiratoryRate),
                bloodPressure |-> \/ Lt(p.bloodPressureSystolic, Num(90))
                                  \/ Le(p.bloodPressureDiastolic, Num(60)),
                age |-> Le(Num(65), p.age)]
  IN {c \in DOMAIN holds : holds[c]}

\* the risk class a recommendation text opens with
RiskClass(score) ==
  CASE score \in {0, 1} -> "Low risk"
    [] score = 2 -> "Moderate risk"
    [] score \in {3, 4, 5} -> "Severe pneumonia"

StartsWith(text, prefix) ==
  \E rest \in {" - Consider outpatient treatment",
                " - Consider short inpatient stay or hospital-supervised outpatient treatment",
                " - Hospitalize, consider ICU"} : text = prefix \o rest

\* C20: calculateCURB65 returns as score the number of satisfied criteria
\* among confusion, urea above 7 (above 19 with the BUN flag), respiratory
\* rate at least 30, systolic pressure below 90 or diastolic at most 60, and
\* age at least 65; the score is an integer in 0..5, both lookup tables have
\* an entry for it, the recommendation is low risk for 0-1, moderate for 2
\* and severe for 3-5, and the details list has exactly score entries.
C20_ScoreCountsCriteria ==
  call = "calculateCURB65" =>
    /\ ret.score = Cardinality(SatisfiedCriteria(params))
    /\ ret.score \in 0..5
    /\ ret.mortality30Day.defined
    /\ ret.mortality30Day.str = mortality30DayMap[ret.score]
    /\ ret.recommendation.defined
    /\ StartsWith(ret.recommendation.str, RiskClass(ret.score))
    /\ Len(ret.details) = ret.score

\* every criterion is satisfied, blood pressure by the diastolic bound alone
C20_Witness ==
  /\ call = "calculateCURB65"
  /\ ret.score = 5
  /\ Len(ret.details) = 5
  /\ params.bloodPressureSystolic = Num(90)
  /\ params.bloodPressureDiastolic = Num(60)
  /\ params.isUraBUN = Flag(TRUE)

\* 1 for a true condition, 0 for a false one
One(b) == IF b THEN 1 ELSE 0

\* the CHA2DS2-VASc sum of the arguments p
CHADSVAScSum(p) ==
  One(p.chf) + One(p.hypertension)
  + (IF Le(Num(75), p.age) THEN 2
     ELSE IF Le(Num(65), p.age) /\ Lt(p.age, Num(75)) THEN 1 ELSE 0)
  + One(p.diabetes) + 2 * One(p.stroke) + One(p.vascularDisease)
  + One(p.sex = "female")

\* the recommendations that advise against anticoagulation
NoAnticoagulation ==
  {"No anticoagulation recommended",
   "No anticoagulation (score driven by female sex alone)"}

\* C21: calculateCHADSVASc returns score = chf + hypertension + (2 if age >=
\* 75, 1 if 65 <= age < 75, else 0) + diabetes + 2 * stroke + vascularDisease
\* + (1 if female); the score is in 0..9, so the stroke risk lookup is defined
\* and the clamp to 9 changes nothing; 'No anticoagulation' is recommended
\* only for a male with score 0 or a female with score 1, and a female with
\* score 1 has no other risk factor.
C21_ScoreAndAdvice ==
  call = "calculateCHADSVASc" =>
    /\ ret.score = CHADSVAScSum(params)
    /\ ret.score \in 0..9
    /\ ret.annualStrokeRisk.defined
    /\ ret.annualStrokeRisk.str = strokeRiskMap[ret.score]
    /\ ret.recommendation \in NoAnticoagulation =>
         \/ params.sex = "male" /\ ret.score = 0
         \/ params.sex = "female" /\ ret.score = 1
    /\ params.sex = "female" /\ ret.score = 1 =>
         /\ ~params.chf /\ ~params.hypertension /\ ~params.diabetes
         /\ ~params.stroke /\ ~params.vascularDisease
         /\ Lt(params.age, Num(65))

\* a woman of 75 with every risk factor: the highest score
C21_Witness ==
  /\ call = "calculateCHADSVASc"
  /\ ret.score = 9
  /\ params.age = Num(75)
  /\ ret.annualStrokeRisk.str = "15.2%"

\* the Wells sum of the arguments p
WellsSum(p) ==
  Cardinality({c \in WellsPositive : p[c]})
  - (IF p.alternativeDiagnosisLikely THEN 2 ELSE 0)

\* C22: calculateWellsDVT returns score = (number of true criteria among the
\* nine positive ones) - 2 if an alternative diagnosis is likely; the score
\* is in -2..9; probability is Low iff score <= 0, Moderate iff score is 1 or
\* 2, High iff score >= 3, with prevalence 5%, 17%, 53% respectively, and
\* direct ultrasound is recommended iff the probability is High.
C22_WellsScoreAndProbability ==
  call = "calculateWellsDVT" =>
    /\ ret.score = WellsSum(params)
    /\ ret.score \in -2..9
    /\ ret.probability = "Low" <=> ret.score <= 0
    /\ ret.probability = "Moderate" <=> ret.score \in {1, 2}
    /\ ret.probability = "High" <=> ret.score >= 3
    /\ ret.probability = "Low" => ret.prevalence = "5%"
    /\ ret.probability = "Moderate" => ret.prevalence = "17%"
    /\ ret.probability = "High" => ret.prevalence = "53%"
    /\ ret.recommendation = "Proceed directly to ultrasound. D-dimer not reliable to exclude."
         <=> ret.probability = "High"

\* two criteria cancelled by a likely alternative diagnosis: score 0, Low
C22_Witness ==
  /\ call = "calculateWellsDVT"
  /\ params.alternativeDiagnosisLikely
  /\ Cardinality({c \in WellsPositive : params[c]}) = 2
  /\ ret.score = 0
  /\ ret.probability = "Low"

\* the mortality estimates and the severity categories, lowest first
MortalityBands == <<"~4%", "~8%", "~15%", "~25%", "~40%", "~55%", "~75%", ">85%">>

SeverityBands ==
  <<"Low severity", "Moderate severity", "High severity", "Very high severity">>

\* the place of a text in a list of bands, 0 when it is not one of them
BandOf(text, bands) ==
  IF \E i \in DOMAIN bands : bands[i] = text
  THEN CHOOSE i \in DOMAIN bands : bands[i] = text
  ELSE 0

\* the band of a step table with the given breakpoints: one more than the
\* number of breakpoints below the score
StepBand(score, breakpoints) ==
  1 + Cardinality({b \in breakpoints : Lt(Num(b), score)})

\* the scores of the range 0..39
ApacheScores == {Num(s) : s \in 0..39}

\* C23: calculateAPACHEII_APS returns an integer score that, for GCS in
\* 3..15, lies in 0..39, and maps it through two total, non-decreasing step
\* tables: mortality estimate with breakpoints at 4/9/14/19/24/29/34 and
\* severity category with breakpoints at 10/20/30; a higher score never
\* yields a lower mortality band or severity category.
C23_ScoreRangeAndStepTables ==
  call = "calculateAPACHEII_APS" =>
    /\ ret.score \in ApacheScores
    /\ BandOf(ret.mortalityEstimate, MortalityBands)
         = StepBand(ret.score, {4, 9, 14, 19, 24, 29, 34})
    /\ BandOf(ret.category, SeverityBands) = StepBand(ret.score, {10, 20, 30})
    /\ \A higher \in ApacheScores :
         Lt(ret.score, higher) =>
           /\ BandOf(MortalityEstimate(higher), MortalityBands)
                >= BandOf(ret.mortalityEstimate, MortalityBands)
           /\ BandOf(SeverityCategory(higher), SeverityBands)
                >= BandOf(ret.category, SeverityBands)

\* the highest score: every vital sign at 4 points, GCS 3, age 75, emergency
C23_Witness ==
  /\ call = "calculateAPACHEII_APS"
  /\ params.rest.gcs = Num(3)
  /\ ret.score = Num(39)
  /\ ret.mortalityEstimate = ">85%"
  /\ ret.category = "Very high severity"

\* the unread inputs with one of them, or all of them, taken from other
OtherLabs(labs, other) ==
  {[labs EXCEPT ![f] = other[f]] : f \in DOMAIN labs} \cup {other}

LeDouble(x, y) == ~LtDouble(y, x)

\* 0 <= lower <= proportion <= upper <= 1 in a result r
Contained(r) ==
  /\ LeDouble(Whole(Num(0)), r.lower)
  /\ LeDouble(r.lower, r.proportion)
  /\ LeDouble(r.proportion, r.upper)
  /\ LeDouble(r.upper, Whole(Num(1)))

\* C24: for every pair (successes, total) with total >= 1 and 0 <= successes
\* <= total, and for every confidence level, calculateProportionCI returns
\* 0 <= lower <= proportion <= upper <= 1.
C24_WilsonContainment ==
  (/\ call = "calculateProportionCI"
   /\ Le(Num(1), params.total)
   /\ Le(Num(0), params.successes)
   /\ Le(params.successes, params.total))
    => Contained(ret)

\* x is a number of [0, 1]
UnitInterval(x) == x.k = "num" /\ Le(Num(0), x) /\ Le(x, Num(1))

\* x is a non-negative number or Infinity
NonNegativeOrInfinity(x) == x = Inf(1) \/ (x.k = "num" /\ Le(Num(0), x))

\* C25: for all non-negative integer counts tp, fp, fn, tn (including empty
\* rows, empty columns and all zeros), calculateDiagnosticTest never fails and
\* never returns NaN: sensitivity, specificity, ppv, npv, accuracy and
\* prevalence are numbers in [0,1] (0 when their denominator is 0), and plr
\* and nlr are either a non-negative number or Infinity, with plr = Infinity
\* exactly when specificity = 1.
C25_NoNaNInDiagnosticTest ==
  call = "calculateDiagnosticTest" =>
    LET tp == params.truePositive
        fp == params.falsePositive
        fn == params.falseNegative
        tn == params.trueNegative
        zero == Num(0)
    IN /\ ret.ok
       /\ \A f \in {"sensitivity", "specificity", "ppv", "npv", "accuracy", "prevalence"} :
            UnitInterval(ret[f])
       /\ Add(tp, fn) = Num(0) => ret.sensitivity = zero
       /\ Add(fp, tn) = Num(0) => ret.specificity = zero
       /\ Add(tp, fp) = Num(0) => ret.ppv = zero
       /\ Add(fn, tn) = Num(0) => ret.npv = zero
       /\ Add(Add(tp, fp), Add(fn, tn)) = Num(0) =>
            ret.accuracy = zero /\ ret.prevalence = zero
       /\ NonNegativeOrInfinity(ret.plr)
       /\ NonNegativeOrInfinity(ret.nlr)
       /\ ret.plr = Inf(1) <=> ret.specificity = Num(1)

\* the study carries a dispersion: its variance or its standard error is not 0
HasDispersion(s) == Truthy(s.variance) \/ Truthy(s.standardError)

\* C26: in calculateMetaAnalysis the dispersion of a study's inverse-variance
\* weight and the one of its reported 95% CI are the same quantity: for every
\* study record with a nonzero variance or standardError (records that carry
\* both included), the half-width of the study's CI is 1.96 * sqrt(v), v the
\* variance used in the study's weight.
C26_WeightAndIntervalAgree ==
  (call = "calculateMetaAnalysis" /\ ret.ok) =>
    \A i \in 1..Len(studies) :
      HasDispersion(studies[i]) =>
        LET halfWidth == Mul(zCritical, Sqrt(StudyVariance(studies[i])))
        IN /\ Sub(ret.studies[i].upperCI, studies[i].effectSize) = halfWidth
           /\ Sub(studies[i].effectSize, ret.studies[i].lowerCI) = halfWidth

\* C27: when both sample sizes are supplied and arr != 0, the 95% interval
\* returned by calculateNNT is ordered and brackets the point estimate:
\* ci95.lower <= nnt <= ci95.upper, for benefit (arr > 0), for harm (arr < 0),
\* and when the ARR interval spans zero.
C27_IntervalBracketsNNT ==
  (/\ call = "calculateNNT"
   /\ Given(params.n1) /\ Given(params.n2)
   /\ NonZeroDouble(ret.arr))
    => /\ Le(ret.ci95.lower, ret.nnt.v)
       /\ Le(ret.nnt.v, ret.ci95.upper)

\* C29: in the selected-articles store, starting from an empty selection,
\* after any sequence of addArticles, removeArticles, toggleSelection and
\* clearArticles calls (with any argument lists, and with several calls
\* issued before the next re-render), the selected list never contains two
\* articles with the same id.
C29_NoDuplicateIds ==
  \A i, j \in 1..Len(selectedArticles) :
    selectedArticles[i].id = selectedArticles[j].id => i = j

\* the providers that have an API key, in the order of the call
ExpectedProviders ==
  SelectSeq(IF params.complexity = Str("low") THEN <<"groq_8b", "groq_70b", "lovable">>
            ELSE <<"groq_70b", "groq_8b", "lovable">>,
            LAMBDA p : IF p = "lovable" THEN "LOVABLE_API_KEY" \in env
                       ELSE "GROQ_API_KEY" \in env)

\* a response with an OK status
OkResponse(r) == r.kind = "response" /\ r.status \in 200..299

\* a response with an OK status whose body is read as JSON
ParsedOkResponse(r) == OkResponse(r) /\ r.body.json

\* callAI has returned the error of the exhausted list
ReturnedAllFailed ==
  /\ pc = "returned"
  /\ ret.error.defined
  /\ Head(ret.error.text) = "All AI providers failed: "

\* the requests sent so far go to the providers with a key, in the order of
\* the call, each after the failure of the one before; the call stops at the
\* first response that counts as a success and returns its content; the error
\* of the exhausted list is returned after every provider with a key failed
FallbackOrder(Success(_)) ==
  /\ Len(requests) <= Len(ExpectedProviders)
  /\ \A i \in 1..Len(requests) : requests[i].provider = ExpectedProviders[i]
  /\ Len(requests) = Len(responses) + (IF pc = "fetch" THEN 1 ELSE 0)
  /\ \A i \in 1..Len(responses) :
       IF Success(responses[i])
       THEN /\ i = Len(responses) /\ i = Len(requests)
            /\ pc = "returned"
            /\ ret.content = (IF responses[i].body.content.defined
                              THEN responses[i].body.content.str ELSE "")
            /\ ~ret.error.defined
            /\ ret.provider.defined
       ELSE /\ Len(errors) >= i
            /\ pc = "returned" /\ i = Len(responses) => ReturnedAllFailed
  /\ ReturnedAllFailed
       => /\ Len(requests) = Len(ExpectedProviders)
          /\ Len(responses) = Len(requests)
          /\ Len(errors) = Len(responses)
          /\ \A i \in 1..Len(responses) : ~Success(responses[i])

\* after a failure, or at the start, callAI goes on: it sends the request to
\* the next provider that has a key or returns
MovesOn == (pc = "loop") ~> (pc = "fetch" \/ pc = "returned")

====
